---- MODULE Spec2Model ----
(***************************************************************************)
(* Model of the arbitrax matching engine: models.Order, the orderbook      *)
(* package (PriceLevel, PriceLevelHeap, OrderBook) and                     *)
(* matching.MatchingEngine.                                                *)
(*                                                                         *)
(* Prices and quantities are float64 in the source; here they are small    *)
(* naturals, so arithmetic is exact (IEEE-754 rounding is not modelled).   *)
(* Order and trade identifiers (uuid.New) are the creation counters.       *)
(* A *PriceLevel is a key of the store `levels`; a heap's Levels slice is  *)
(* a sequence of such keys.  Wall-clock timestamps are not modelled,       *)
(* except that FilledAt is recorded as "set or nil".                       *)
(***************************************************************************)
EXTENDS Integers, Sequences, FiniteSets, TLC

\* ---- bounds of the model ----
MaxCalls == 4
MaxQty == 2
MaxPrice == 3
\* calls made in the concurrent specification
MaxConcCalls == 3
\* calls made in the specification of the entry points
MaxEntryCalls == 2
\* calls made in the specification of the engine's book map
MaxBookCalls == 3
\* calls made in the specification of the trade log, and the largest limit
\* passed to GetRecentTrades
MaxTradeCalls == 7
MaxLimit == 3
\* calls made in the runs that interleave the statements of a matching pass
MaxRaceCalls == 3
\* calls made in the runs that watch the trade log under concurrent submits
MaxLogCalls == 4
\* calls made in the runs of GetSpread and GetMidPrice next to writers
MaxReadCalls == 4

Symbols == {"AAPL"}
Sides == {"buy", "sell"}
Quantities == 1..MaxQty
Prices == 1..MaxPrice

\* what a float64 quantity or price can be: negative, zero or positive
AnyQuantities == -1..MaxQty
AnyPrices == -1..MaxPrice

\* a nil *PriceLevel / a nil *Trade / a nil *OrderBook
NilLevel == 0
NilTrade == 0
NilBook == [Symbol |-> ""]

\* the symbols of the specifications that use more than one book
BookSymbols == {"AAPL", "MSFT"}

VARIABLES
    orders,      \* every models.Order created so far, by ID
    levels,      \* the live PriceLevel objects, by address
    orderBooks,  \* me.orderBooks: symbol -> OrderBook
    trades,      \* me.trades, the engine's trade log
    tradeSeq,    \* number of models.NewTrade calls so far (the next trade ID)
    ret,         \* what the last call returned to its caller
    calls,       \* number of API calls made so far
    pc,          \* where each handler goroutine stands in its call
    loc,         \* the local variables of each handler goroutine
    removed      \* history: the orders for which RemoveOrder returned true

vars == <<orders, levels, orderBooks, trades, tradeSeq, ret, calls, pc, loc, removed>>

------------------------------------------------------------------------------
\* models.Order

NewOrder(symbol, orderType, side, quantity, price) ==
    [Symbol |-> symbol, Type |-> orderType, Side |-> side,
     Quantity |-> quantity, Price |-> price, Status |-> "pending",
     FilledQuantity |-> 0, FilledAt |-> FALSE, CancelledAt |-> FALSE]

RemainingQuantity(o) == o.Quantity - o.FilledQuantity

IsFilled(o) == o.FilledQuantity >= o.Quantity

\* variant: the fill overwrites the filled quantity instead of adding to it
FillOverwrite(o, quantity, price) ==
    LET o1 == [o EXCEPT !.FilledQuantity = quantity]
    IN  IF IsFilled(o1)
        THEN [o1 EXCEPT !.Status = "filled", !.FilledAt = TRUE]
        ELSE IF o1.FilledQuantity > 0
             THEN [o1 EXCEPT !.Status = "partial"]
             ELSE o1

\* variant: a fill that does not complete the order leaves the status alone
FillNoPartial(o, quantity, price) ==
    LET o1 == [o EXCEPT !.FilledQuantity = @ + quantity]
    IN  IF IsFilled(o1)
        THEN [o1 EXCEPT !.Status = "filled", !.FilledAt = TRUE]
        ELSE o1

Fill(o, quantity, price) ==
    LET o1 == [o EXCEPT !.FilledQuantity = @ + quantity]
    IN  IF IsFilled(o1)
        THEN [o1 EXCEPT !.Status = "filled", !.FilledAt = TRUE]
        ELSE IF o1.FilledQuantity > 0
             THEN [o1 EXCEPT !.Status = "partial"]
             ELSE o1

\* variant: every trade carries the symbol AAPL
NewTradeOneSymbol(id, symbol, buyOrderID, sellOrderID, price, quantity) ==
    [ID |-> id, Symbol |-> "AAPL", BuyOrderID |-> buyOrderID,
     SellOrderID |-> sellOrderID, Price |-> price, Quantity |-> quantity]

\* models.Trade
NewTrade(id, symbol, buyOrderID, sellOrderID, price, quantity) ==
    [ID |-> id, Symbol |-> symbol, BuyOrderID |-> buyOrderID,
     SellOrderID |-> sellOrderID, Price |-> price, Quantity |-> quantity]

\* variant: the second argument whatever the first
minSecond(a, b) == b

min(a, b) == IF a < b THEN a ELSE b

------------------------------------------------------------------------------
\* orderbook.PriceLevelHeap over the level store L; h = [Levels, IsBid].
\* Indices are the 0-based indices of the Go slices.

\* Go's integer division truncates toward zero
GoDiv(a, b) == IF a >= 0 THEN a \div b ELSE -((-a) \div b)

At(s, i) == s[i + 1]

HeapLen(h) == Len(h.Levels)

\* variant: the comparison ignores IsBid (a min-heap on both sides)
LessIgnoringSide(L, h, i, j) ==
    L[At(h.Levels, i)].Price < L[At(h.Levels, j)].Price

Less(L, h, i, j) ==
    IF h.IsBid
    THEN L[At(h.Levels, i)].Price > L[At(h.Levels, j)].Price
    ELSE L[At(h.Levels, i)].Price < L[At(h.Levels, j)].Price

Swap(h, i, j) ==
    [h EXCEPT !.Levels = [@ EXCEPT ![i + 1] = At(h.Levels, j),
                                   ![j + 1] = At(h.Levels, i)]]

Peek(h) == IF HeapLen(h) = 0 THEN NilLevel ELSE At(h.Levels, 0)

\* container/heap: up, down, Init, Push, Pop
RECURSIVE up(_, _, _)
up(L, h, j) ==
    LET i == GoDiv(j - 1, 2)
    IN  IF i = j \/ ~Less(L, h, j, i)
        THEN h
        ELSE up(L, Swap(h, i, j), i)

RECURSIVE down(_, _, _, _)
down(L, h, i, n) ==
    LET j1 == 2 * i + 1
    IN  IF j1 >= n \/ j1 < 0
        THEN h
        ELSE LET j2 == j1 + 1
                 j  == IF j2 < n /\ Less(L, h, j2, j1) THEN j2 ELSE j1
             IN  IF ~Less(L, h, j, i)
                 THEN h
                 ELSE down(L, Swap(h, i, j), j, n)

RECURSIVE HeapInitFrom(_, _, _)
HeapInitFrom(L, h, i) ==
    IF i < 0 THEN h ELSE HeapInitFrom(L, down(L, h, i, HeapLen(h)), i - 1)

\* variant: the heap is left as the removal left it
HeapInitNone(L, h) == h

HeapInit(L, h) == HeapInitFrom(L, h, GoDiv(HeapLen(h), 2) - 1)

\* variant: the new level is appended and not sifted up
HeapPushNoFix(L, h, x) == [h EXCEPT !.Levels = Append(@, x)]

HeapPush(L, h, x) ==
    up(L, [h EXCEPT !.Levels = Append(@, x)], HeapLen(h))

\* heap.Pop of a non-empty heap (on an empty heap h.Swap(0, -1) panics)
HeapPop(L, h) ==
    LET n  == HeapLen(h) - 1
        h1 == down(L, Swap(h, 0, n), 0, n)
    IN  [h1 EXCEPT !.Levels = SubSeq(@, 1, n)]

NewBidHeap == [Levels |-> <<>>, IsBid |-> TRUE]
NewAskHeap == [Levels |-> <<>>, IsBid |-> FALSE]

\* indices (1-based) of the levels of h whose price is p, in slice order
\* variant: the scan takes the first level whatever its price
LevelsAtAnyPrice(L, h, p) == 1..HeapLen(h)

LevelsAt(L, h, p) == {i \in 1..HeapLen(h) : L[h.Levels[i]].Price = p}

SetMin(S) == CHOOSE x \in S : \A y \in S : x <= y

\* variant: a new order joins at the head of the queue
EnqueueFront(queue, id) == <<id>> \o queue

\* where a new order joins the FIFO queue of a level
Enqueue(queue, id) == Append(queue, id)

\* PriceLevelHeap.AddOrder: [L, h] afterwards; a new level gets address lid
HeapAddOrder(L, h, id, price, lid) ==
    LET found == LevelsAt(L, h, price)
    IN  IF found # {}
        THEN LET a == h.Levels[SetMin(found)]
             IN  [L |-> [L EXCEPT ![a].Orders = Enqueue(@, id)], h |-> h]
        ELSE LET L1 == [x \in DOMAIN L \cup {lid} |->
                          IF x = lid THEN [Price |-> price, Orders |-> <<id>>]
                          ELSE L[x]]
             IN  [L |-> L1, h |-> HeapPush(L1, h, lid)]

\* variant: the removal also drops everything in front of position j
RemoveThrough(s, j) == SubSeq(s, j + 1, Len(s))

RemoveAt(s, j) == SubSeq(s, 1, j - 1) \o SubSeq(s, j + 1, Len(s))

\* variant: the scan stops at the head of the queue whatever its ID
IndexOfHead(s, x) == 1

IndexOf(s, x) == SetMin({j \in 1..Len(s) : s[j] = x})

InSeq(s, x) == \E j \in 1..Len(s) : s[j] = x

\* variant: a level the removal has emptied stays in the heap
HeapRemoveOrderKeepLevel(L, h, id, price) ==
    LET found == {i \in LevelsAt(L, h, price) : InSeq(L[h.Levels[i]].Orders, id)}
    IN  IF found = {}
        THEN [L |-> L, h |-> h, ok |-> FALSE]
        ELSE LET a == h.Levels[SetMin(found)]
             IN  [L |-> [L EXCEPT ![a].Orders = RemoveAt(@, IndexOf(@, id))],
                  h |-> h, ok |-> TRUE]

\* PriceLevelHeap.RemoveOrder: [L, h, ok] afterwards
HeapRemoveOrder(L, h, id, price) ==
    LET found == {i \in LevelsAt(L, h, price) : InSeq(L[h.Levels[i]].Orders, id)}
    IN  IF found = {}
        THEN [L |-> L, h |-> h, ok |-> FALSE]
        ELSE LET i  == SetMin(found)
                 a  == h.Levels[i]
                 q  == RemoveAt(L[a].Orders, IndexOf(L[a].Orders, id))
                 L1 == [L EXCEPT ![a].Orders = q]
             IN  IF Len(q) = 0
                 THEN LET h1 == [h EXCEPT !.Levels = RemoveAt(@, i)]
                      IN  [L |-> L1, h |-> HeapInit(L1, h1), ok |-> TRUE]
                 ELSE [L |-> L1, h |-> h, ok |-> TRUE]

------------------------------------------------------------------------------
\* orderbook.OrderBook

NewOrderBook(symbol) ==
    [Symbol |-> symbol, Bids |-> NewBidHeap, Asks |-> NewAskHeap,
     LastPrice |-> 0, LastTrade |-> NilTrade, orders |-> {},
     mutex |-> {}]   \* the goroutines holding ob.mutex.RLock

\* variant: the order joins its level but is not recorded in the identity index
AddOrderUnindexed(m, id) ==
    LET order == m.orders[id]
        r == IF order.Side = "buy"
             THEN HeapAddOrder(m.levels, m.ob.Bids, id, order.Price, id)
             ELSE HeapAddOrder(m.levels, m.ob.Asks, id, order.Price, id)
    IN  [m EXCEPT !.levels = r.L,
                  !.ob = IF order.Side = "buy"
                         THEN [@ EXCEPT !.Bids = r.h]
                         ELSE [@ EXCEPT !.Asks = r.h]]

\* OrderBook.AddOrder on the machine state m = [orders, levels, ob, tseq, out]
AddOrder(m, id) ==
    LET order == m.orders[id]
        r == IF order.Side = "buy"
             THEN HeapAddOrder(m.levels, m.ob.Bids, id, order.Price, id)
             ELSE HeapAddOrder(m.levels, m.ob.Asks, id, order.Price, id)
    IN  [m EXCEPT !.levels = r.L,
                  !.ob = IF order.Side = "buy"
                         THEN [@ EXCEPT !.orders = @ \cup {id}, !.Bids = r.h]
                         ELSE [@ EXCEPT !.orders = @ \cup {id}, !.Asks = r.h]]

\* variant: the order is deleted from the index and left in its level
BookRemoveOrderIndexOnly(L, ob, os, orderID) ==
    IF orderID \notin ob.orders
    THEN [levels |-> L, ob |-> ob, ok |-> FALSE]
    ELSE [levels |-> L, ob |-> [ob EXCEPT !.orders = @ \ {orderID}], ok |-> TRUE]

\* OrderBook.RemoveOrder: [levels, ob, ok] afterwards
BookRemoveOrder(L, ob, os, orderID) ==
    IF orderID \notin ob.orders
    THEN [levels |-> L, ob |-> ob, ok |-> FALSE]
    ELSE LET order == os[orderID]
             ob1 == [ob EXCEPT !.orders = @ \ {orderID}]
         IN  IF order.Side = "buy"
             THEN LET r == HeapRemoveOrder(L, ob.Bids, orderID, order.Price)
                  IN  [levels |-> r.L, ob |-> [ob1 EXCEPT !.Bids = r.h], ok |-> r.ok]
             ELSE LET r == HeapRemoveOrder(L, ob.Asks, orderID, order.Price)
                  IN  [levels |-> r.L, ob |-> [ob1 EXCEPT !.Asks = r.h], ok |-> r.ok]

GetBestBid(L, ob) == IF HeapLen(ob.Bids) = 0 THEN 0 ELSE L[Peek(ob.Bids)].Price

GetBestAsk(L, ob) == IF HeapLen(ob.Asks) = 0 THEN 0 ELSE L[Peek(ob.Asks)].Price

\* variant: the spread is taken the other way round
GetSpreadBidMinusAsk(L, ob) ==
    LET bestBid == GetBestBid(L, ob)
        bestAsk == GetBestAsk(L, ob)
    IN  IF bestBid = 0 \/ bestAsk = 0 THEN 0 ELSE bestBid - bestAsk

\* OrderBook.GetSpread
GetSpread(L, ob) ==
    LET bestBid == GetBestBid(L, ob)
        bestAsk == GetBestAsk(L, ob)
    IN  IF bestBid = 0 \/ bestAsk = 0 THEN 0 ELSE bestAsk - bestBid

\* A float64 that is a whole number of halves, as its integer part and the
\* number of halves beyond it (0 or 1): Whole(x) is x, Halve(x) is x / 2.
Whole(x) == [int |-> x, halves |-> 0]

\* variant: integer division
HalveTruncating(x) == [int |-> x \div 2, halves |-> 0]

Halve(x) == [int |-> x \div 2, halves |-> x % 2]

\* OrderBook.GetMidPrice
GetMidPrice(L, ob) ==
    LET bestBid == GetBestBid(L, ob)
        bestAsk == GetBestAsk(L, ob)
    IN  IF bestBid = 0 \/ bestAsk = 0 THEN Whole(ob.LastPrice) ELSE Halve(bestBid + bestAsk)

------------------------------------------------------------------------------
\* matching.MatchingEngine: the matching loops, on the machine state
\* m = [orders, levels, ob, tseq, out]; out is the local slice `trades`.

OppositeHeap(ob, order) == IF order.Side = "buy" THEN ob.Asks ELSE ob.Bids

SetOppositeHeap(ob, order, h) ==
    IF order.Side = "buy" THEN [ob EXCEPT !.Asks = h] ELSE [ob EXCEPT !.Bids = h]

\* heap.Pop(oppositeHeap)
PopOpposite(m, id) ==
    LET order == m.orders[id]
    IN  [m EXCEPT !.ob = SetOppositeHeap(@, order,
                             HeapPop(m.levels, OppositeHeap(m.ob, order)))]

\* variant: the trade takes the aggressor's whole remainder
TradeQtyOfAggressor(order, oppositeOrder) == RemainingQuantity(order)

TradeQty(order, oppositeOrder) ==
    min(RemainingQuantity(order), RemainingQuantity(oppositeOrder))

\* variant: the trade is priced by the aggressor
TradePriceOfAggressor(order, oppositeOrder) == order.Price

TradePrice(order, oppositeOrder) == oppositeOrder.Price

\* variant: an equal price is refused (>= and <= in place of > and <)
PriceAcceptableStrict(order, levelPrice) ==
    /\ ~(order.Side = "buy" /\ levelPrice >= order.Price)
    /\ ~(order.Side = "sell" /\ levelPrice <= order.Price)

\* variant: the two comparisons are the wrong way round
PriceAcceptableInverted(order, levelPrice) ==
    /\ ~(order.Side = "buy" /\ levelPrice < order.Price)
    /\ ~(order.Side = "sell" /\ levelPrice > order.Price)

\* the two price checks of matchLimitOrder: FALSE where the loop breaks
PriceAcceptable(order, levelPrice) ==
    /\ ~(order.Side = "buy" /\ levelPrice > order.Price)
    /\ ~(order.Side = "sell" /\ levelPrice < order.Price)

\* variant: the pass leaves the book's LastPrice and LastTrade as they were
MatchOneNoLast(m, id, bestLevel) ==
    LET order == m.orders[id]
        oid == Head(m.levels[bestLevel].Orders)
        oppositeOrder == m.orders[oid]
        tradeQty == TradeQty(order, oppositeOrder)
        tradePrice == TradePrice(order, oppositeOrder)
        trade == IF order.Side = "buy"
                 THEN NewTrade(m.tseq + 1, order.Symbol, id, oid, tradePrice, tradeQty)
                 ELSE NewTrade(m.tseq + 1, order.Symbol, oid, id, tradePrice, tradeQty)
        os1 == [m.orders EXCEPT ![id] = Fill(@, tradeQty, tradePrice)]
        os2 == [os1 EXCEPT ![oid] = Fill(@, tradeQty, tradePrice)]
    IN  [m EXCEPT !.orders = os2,
                  !.tseq = @ + 1,
                  !.out = Append(@, trade),
                  !.levels = IF IsFilled(os2[oid])
                             THEN [@ EXCEPT ![bestLevel].Orders = Tail(@)]
                             ELSE @]

\* one pass of the body of the inner loop, against bestLevel.Orders[0]
MatchOne(m, id, bestLevel) ==
    LET order == m.orders[id]
        oid == Head(m.levels[bestLevel].Orders)
        oppositeOrder == m.orders[oid]
        tradeQty == TradeQty(order, oppositeOrder)
        tradePrice == TradePrice(order, oppositeOrder)
        trade == IF order.Side = "buy"
                 THEN NewTrade(m.tseq + 1, order.Symbol, id, oid, tradePrice, tradeQty)
                 ELSE NewTrade(m.tseq + 1, order.Symbol, oid, id, tradePrice, tradeQty)
        os1 == [m.orders EXCEPT ![id] = Fill(@, tradeQty, tradePrice)]
        os2 == [os1 EXCEPT ![oid] = Fill(@, tradeQty, tradePrice)]
    IN  [m EXCEPT !.orders = os2,
                  !.tseq = @ + 1,
                  !.ob = [@ EXCEPT !.LastPrice = tradePrice, !.LastTrade = trade.ID],
                  !.out = Append(@, trade),
                  !.levels = IF IsFilled(os2[oid])
                             THEN [@ EXCEPT ![bestLevel].Orders = Tail(@)]
                             ELSE @]

InnerCondition(m, id, bestLevel) ==
    /\ Len(m.levels[bestLevel].Orders) > 0
    /\ RemainingQuantity(m.orders[id]) > 0

\* variant: the outer loop stops once a trade was made
OuterConditionOnce(m, id) ==
    /\ Len(m.out) = 0
    /\ RemainingQuantity(m.orders[id]) > 0
    /\ HeapLen(OppositeHeap(m.ob, m.orders[id])) > 0

OuterCondition(m, id) ==
    /\ RemainingQuantity(m.orders[id]) > 0
    /\ HeapLen(OppositeHeap(m.ob, m.orders[id])) > 0

RECURSIVE LimitInner(_, _, _)
LimitInner(m, id, bestLevel) ==
    IF InnerCondition(m, id, bestLevel)
    THEN LimitInner(MatchOne(m, id, bestLevel), id, bestLevel)
    ELSE m

RECURSIVE LimitOuter(_, _)
LimitOuter(m, id) ==
    IF ~OuterCondition(m, id)
    THEN m
    ELSE LET order == m.orders[id]
             bestLevel == Peek(OppositeHeap(m.ob, order))
         IN  IF bestLevel = NilLevel \/ Len(m.levels[bestLevel].Orders) = 0
             THEN m
             ELSE IF ~PriceAcceptable(order, m.levels[bestLevel].Price)
             THEN m
             ELSE LET m1 == LimitInner(m, id, bestLevel)
                  IN  IF Len(m1.levels[bestLevel].Orders) = 0
                      THEN LimitOuter(PopOpposite(m1, id), id)
                      ELSE LimitOuter(m1, id)

matchLimitOrder(m, id) ==
    LET m1 == LimitOuter(m, id)
    IN  IF RemainingQuantity(m1.orders[id]) > 0 THEN AddOrder(m1, id) ELSE m1

RECURSIVE MarketInner(_, _, _)
MarketInner(m, id, bestLevel) ==
    IF InnerCondition(m, id, bestLevel)
    THEN LET m1 == MatchOne(m, id, bestLevel)
         IN  IF IsFilled(m1.orders[id]) THEN m1 ELSE MarketInner(m1, id, bestLevel)
    ELSE m

RECURSIVE MarketOuter(_, _)
MarketOuter(m, id) ==
    IF ~OuterCondition(m, id)
    THEN m
    ELSE LET order == m.orders[id]
             bestLevel == Peek(OppositeHeap(m.ob, order))
         IN  IF bestLevel = NilLevel
             THEN m
             ELSE IF Len(m.levels[bestLevel].Orders) = 0
             THEN MarketOuter(PopOpposite(m, id), id)
             ELSE LET m1 == MarketInner(m, id, bestLevel)
                  IN  IF Len(m1.levels[bestLevel].Orders) = 0
                      THEN MarketOuter(PopOpposite(m1, id), id)
                      ELSE MarketOuter(m1, id)

matchMarketOrder(m, id) == MarketOuter(m, id)

\* variant: a market order is handled as a limit order (its remainder rests)
MatchByTypeMarketRests(m, id) ==
    IF m.orders[id].Type = "stop_loss"
    THEN matchLimitOrder([m EXCEPT !.orders[id].Type = "limit"], id)
    ELSE matchLimitOrder(m, id)

\* variant: the switch has no case for stop_loss (the order is dropped)
MatchByTypeStopIgnored(m, id) ==
    IF m.orders[id].Type = "market"
    THEN matchMarketOrder(m, id)
    ELSE IF m.orders[id].Type = "limit"
    THEN matchLimitOrder(m, id)
    ELSE m

\* the switch of SubmitOrder on order.Type
MatchByType(m, id) ==
    IF m.orders[id].Type = "market"
    THEN matchMarketOrder(m, id)
    ELSE IF m.orders[id].Type = "limit"
    THEN matchLimitOrder(m, id)
    ELSE IF m.orders[id].Type = "stop_loss"
    THEN matchLimitOrder([m EXCEPT !.orders[id].Type = "limit"], id)
    ELSE m

\* variant: a new book is stored whether or not the symbol has one
GetOrCreateAlwaysNew(books, symbol) ==
    [s \in DOMAIN books \cup {symbol} |->
        IF s = symbol THEN NewOrderBook(symbol) ELSE books[s]]

\* me.orderBooks after GetOrCreateOrderBook(symbol)
GetOrCreateOrderBook(books, symbol) ==
    IF symbol \in DOMAIN books
    THEN books
    ELSE [s \in DOMAIN books \cup {symbol} |->
            IF s = symbol THEN NewOrderBook(symbol) ELSE books[s]]

\* variant: the lookup makes the book it does not find
GetOrderBookCreating(books, symbol) ==
    [books |-> GetOrCreateOrderBook(books, symbol),
     ob |-> GetOrCreateOrderBook(books, symbol)[symbol]]

\* MatchingEngine.GetOrderBook: [books, ob], the map afterwards and the result
GetOrderBook(books, symbol) ==
    [books |-> books,
     ob |-> IF symbol \in DOMAIN books THEN books[symbol] ELSE NilBook]

\* the PriceLevel objects still reachable from a heap or from refs
Reachable(L, books, refs) ==
    LET inHeaps == UNION {{books[s].Bids.Levels[i] : i \in 1..HeapLen(books[s].Bids)}
                          \cup {books[s].Asks.Levels[i] : i \in 1..HeapLen(books[s].Asks)}
                          : s \in DOMAIN books}
    IN  [a \in (DOMAIN L) \cap (inHeaps \cup refs) |-> L[a]]

------------------------------------------------------------------------------
\* The sequential engine: one call at a time, each running to completion.

NoLevels == [a \in {} |-> 0]
NoBooks == [s \in {} |-> 0]

\* the handler goroutines
Threads == {1, 2}

NoLocals == [symbol |-> "", order |-> 0, bestLevel |-> NilLevel, out |-> <<>>,
             oppositeOrder |-> 0, tradeQty |-> 0, bestBid |-> 0, seen |-> {},
             snapshot |-> [LastPrice |-> 0, Bids |-> <<>>, Asks |-> <<>>]]

Init ==
    /\ orders = <<>>
    /\ levels = NoLevels
    /\ orderBooks = NoBooks
    /\ trades = <<>>
    /\ tradeSeq = 0
    /\ ret = [op |-> "none", order |-> 0, trades |-> <<>>, ok |-> FALSE]
    /\ calls = 0
    /\ pc = [t \in Threads |-> "idle"]
    /\ loc = [t \in Threads |-> NoLocals]
    /\ removed = {}

\* the API handler: models.NewOrder, then MatchingEngine.SubmitOrder
SubmitOrder(symbol, orderType, side, quantity, price) ==
    /\ calls < MaxCalls
    /\ calls' = calls + 1
    /\ LET id == Len(orders) + 1
           books == GetOrCreateOrderBook(orderBooks, symbol)
           m0 == [orders |-> Append(orders, NewOrder(symbol, orderType, side, quantity, price)),
                  levels |-> levels, ob |-> books[symbol],
                  tseq |-> tradeSeq, out |-> <<>>]
           m1 == MatchByType(m0, id)
           books1 == [books EXCEPT ![symbol] = m1.ob]
       IN  /\ orders' = m1.orders
           /\ orderBooks' = books1
           /\ levels' = Reachable(m1.levels, books1, {})
           /\ tradeSeq' = m1.tseq
           /\ trades' = IF Len(m1.out) > 0 THEN trades \o m1.out ELSE trades
           /\ ret' = [op |-> "SubmitOrder", order |-> id, trades |-> m1.out, ok |-> TRUE]
    /\ UNCHANGED <<pc, loc, removed>>

\* OrderBook.RemoveOrder on the book of an existing symbol
RemoveOrder(symbol, orderID) ==
    /\ calls < MaxCalls
    /\ calls' = calls + 1
    /\ symbol \in DOMAIN orderBooks
    /\ LET r == BookRemoveOrder(levels, orderBooks[symbol], orders, orderID)
           books1 == [orderBooks EXCEPT ![symbol] = r.ob]
       IN  /\ orderBooks' = books1
           /\ levels' = Reachable(r.levels, books1, {})
           /\ ret' = [op |-> "RemoveOrder", order |-> orderID, trades |-> <<>>, ok |-> r.ok]
           /\ removed' = IF r.ok THEN removed \cup {orderID} ELSE removed
    /\ UNCHANGED <<orders, trades, tradeSeq, pc, loc>>

SubmitLimit ==
    \E s \in Symbols, side \in Sides, q \in Quantities, p \in Prices :
        SubmitOrder(s, "limit", side, q, p)

SubmitStopLoss ==
    \E s \in Symbols, side \in Sides, q \in Quantities, p \in Prices :
        SubmitOrder(s, "stop_loss", side, q, p)

SubmitMarket ==
    \E s \in Symbols, side \in Sides, q \in Quantities :
        SubmitOrder(s, "market", side, q, 0)

Remove ==
    \E s \in Symbols, id \in 1..Len(orders) : RemoveOrder(s, id)

Next == SubmitLimit \/ SubmitStopLoss \/ SubmitMarket \/ Remove

Spec == Init /\ [][Next]_vars

------------------------------------------------------------------------------
\* The entry points: the HTTP handler submitOrder, which validates the request
\* before it makes the order, and MatchingEngine.SubmitOrder as any Go caller
\* of the package reaches it, with whatever order the caller made.

\* the two checks of the handler: binding gt=0 on quantity, price > 0 for
\* limit and stop_loss
BadRequest(orderType, quantity, price) ==
    \/ ~(quantity > 0)
    \/ (orderType = "limit" \/ orderType = "stop_loss") /\ price <= 0

submitOrder(symbol, orderType, side, quantity, price) ==
    /\ calls < MaxEntryCalls
    /\ IF BadRequest(orderType, quantity, price)
       THEN /\ calls' = calls + 1
            /\ ret' = [op |-> "BadRequest", order |-> 0, trades |-> <<>>, ok |-> FALSE,
                       request |-> [Type |-> orderType, Quantity |-> quantity,
                                    Price |-> price]]
            /\ UNCHANGED <<orders, levels, orderBooks, trades, tradeSeq, pc, loc, removed>>
       ELSE SubmitOrder(symbol, orderType, side, quantity, price)

PostOrder ==
    \E s \in Symbols, ty \in {"market", "limit", "stop_loss"}, side \in Sides,
       q \in AnyQuantities, p \in AnyPrices :
        submitOrder(s, ty, side, q, IF ty = "market" THEN 0 ELSE p)

CallSubmitOrder ==
    \E s \in Symbols, ty \in {"market", "limit", "stop_loss"}, side \in Sides,
       q \in AnyQuantities, p \in AnyPrices :
        /\ calls < MaxEntryCalls
        /\ SubmitOrder(s, ty, side, q, IF ty = "market" THEN 0 ELSE p)

NextEntry == PostOrder \/ CallSubmitOrder

SpecEntry == Init /\ [][NextEntry]_vars

------------------------------------------------------------------------------
\* The concurrent engine: every handler goroutine runs its call step by step.
\* One step is one evaluation of a loop head, one pass of an inner loop body,
\* one `if` after the inner loop, or one critical section of a mutex.  The
\* matching loops take no lock (SubmitOrder never locks ob.mutex; only
\* OrderBook.AddOrder, RemoveOrder and the readers do), so steps of different
\* goroutines interleave freely.

Machine(t) ==
    [orders |-> orders, levels |-> levels, ob |-> orderBooks[loc[t].symbol],
     tseq |-> tradeSeq, out |-> loc[t].out]

\* the PriceLevel objects held in a local variable bestLevel
Refs(l) == {l[t].bestLevel : t \in Threads} \ {NilLevel}

\* goroutine t has brought the machine to m, holds bestLevel = best, goes to next
Commit(t, m, best, next) ==
    LET books1 == [orderBooks EXCEPT ![loc[t].symbol] = m.ob]
        loc1 == [loc EXCEPT ![t].bestLevel = best, ![t].out = m.out]
    IN  /\ orders' = m.orders
        /\ orderBooks' = books1
        /\ loc' = loc1
        /\ levels' = Reachable(m.levels, books1, Refs(loc1))
        /\ tradeSeq' = m.tseq
        /\ pc' = [pc EXCEPT ![t] = next]

\* where a matching loop goes when it ends: placement (limit) or return (market)
AfterLoop(order) == IF order.Type = "market" THEN "store" ELSE "place"

\* the handler: models.NewOrder, then SubmitOrder up to the call of a match function
Begin(t, symbol, orderType, side, quantity, price) ==
    /\ pc[t] = "idle"
    /\ calls < MaxConcCalls
    /\ calls' = calls + 1
    /\ LET order == NewOrder(symbol, orderType, side, quantity, price)
       IN  orders' = Append(orders, IF orderType = "stop_loss"
                                    THEN [order EXCEPT !.Type = "limit"]
                                    ELSE order)
    /\ orderBooks' = GetOrCreateOrderBook(orderBooks, symbol)
    /\ loc' = [loc EXCEPT ![t] = [NoLocals EXCEPT !.symbol = symbol,
                                                   !.order = Len(orders) + 1]]
    /\ pc' = [pc EXCEPT ![t] = "outer"]
    /\ UNCHANGED <<levels, trades, tradeSeq, ret, removed>>

\* the head of the outer loop, up to the inner loop
OuterStep(t) ==
    /\ pc[t] = "outer"
    /\ LET m == Machine(t)
           id == loc[t].order
           order == orders[id]
           best == Peek(OppositeHeap(m.ob, order))
       IN  IF ~OuterCondition(m, id) \/ best = NilLevel
           THEN Commit(t, m, NilLevel, AfterLoop(order))
           ELSE IF Len(levels[best].Orders) = 0
           THEN IF order.Type = "market"
                THEN Commit(t, PopOpposite(m, id), NilLevel, "outer")
                ELSE Commit(t, m, NilLevel, AfterLoop(order))
           ELSE IF order.Type # "market" /\ ~PriceAcceptable(order, levels[best].Price)
           THEN Commit(t, m, NilLevel, AfterLoop(order))
           ELSE Commit(t, m, best, "inner")
    /\ UNCHANGED <<trades, ret, calls, removed>>

\* the head of the inner loop and one pass of its body
InnerStep(t) ==
    /\ pc[t] = "inner"
    /\ LET m == Machine(t)
           id == loc[t].order
           best == loc[t].bestLevel
       IN  IF InnerCondition(m, id, best)
           THEN LET m1 == MatchOne(m, id, best)
                IN  IF orders[id].Type = "market" /\ IsFilled(m1.orders[id])
                    THEN Commit(t, m1, best, "after")
                    ELSE Commit(t, m1, best, "inner")
           ELSE Commit(t, m, best, "after")
    /\ UNCHANGED <<trades, ret, calls, removed>>

\* heap.Pop panics on an empty heap; the handler's recovery ends the request
Panic(t) ==
    LET loc1 == [loc EXCEPT ![t] = NoLocals]
    IN  /\ pc' = [pc EXCEPT ![t] = "idle"]
        /\ loc' = loc1
        /\ levels' = Reachable(levels, orderBooks, Refs(loc1))
        /\ ret' = [op |-> "panic", order |-> loc[t].order, trades |-> loc[t].out,
                   ok |-> FALSE]
        /\ UNCHANGED <<orders, orderBooks, trades, tradeSeq, calls>>

\* after the inner loop: `if len(bestLevel.Orders) == 0 { heap.Pop(oppositeHeap) }`
AfterInnerStep(t) ==
    /\ pc[t] = "after"
    /\ LET m == Machine(t)
           id == loc[t].order
       IN  IF Len(levels[loc[t].bestLevel].Orders) = 0
           THEN IF HeapLen(OppositeHeap(m.ob, orders[id])) = 0
                THEN Panic(t)
                ELSE /\ Commit(t, PopOpposite(m, id), NilLevel, "outer")
                     /\ UNCHANGED ret
           ELSE /\ Commit(t, m, NilLevel, "outer")
                /\ UNCHANGED ret
    /\ UNCHANGED <<trades, calls, removed>>

\* matchLimitOrder's placement; AddOrder takes ob.mutex.Lock
PlaceStep(t) ==
    /\ pc[t] = "place"
    /\ LET m == Machine(t)
           id == loc[t].order
       IN  IF RemainingQuantity(orders[id]) > 0
           THEN /\ m.ob.mutex = {}
                /\ Commit(t, AddOrder(m, id), NilLevel, "store")
           ELSE Commit(t, m, NilLevel, "store")
    /\ UNCHANGED <<trades, ret, calls, removed>>

\* variant: the batch is put in front of the log
StoreStepPrepend(t) ==
    /\ pc[t] = "store"
    /\ trades' = IF Len(loc[t].out) > 0 THEN loc[t].out \o trades ELSE trades
    /\ ret' = [op |-> "SubmitOrder", order |-> loc[t].order, trades |-> loc[t].out,
               ok |-> TRUE]
    /\ pc' = [pc EXCEPT ![t] = "idle"]
    /\ loc' = [loc EXCEPT ![t] = NoLocals]
    /\ UNCHANGED <<orders, levels, orderBooks, tradeSeq, calls, removed>>

\* SubmitOrder stores the trades under me.mutex and returns
StoreStep(t) ==
    /\ pc[t] = "store"
    /\ trades' = IF Len(loc[t].out) > 0 THEN trades \o loc[t].out ELSE trades
    /\ ret' = [op |-> "SubmitOrder", order |-> loc[t].order, trades |-> loc[t].out,
               ok |-> TRUE]
    /\ pc' = [pc EXCEPT ![t] = "idle"]
    /\ loc' = [loc EXCEPT ![t] = NoLocals]
    /\ UNCHANGED <<orders, levels, orderBooks, tradeSeq, calls, removed>>

RECURSIVE SumRemaining(_, _)
SumRemaining(os, q) ==
    IF q = <<>> THEN 0 ELSE RemainingQuantity(os[Head(q)]) + SumRemaining(os, Tail(q))

\* variant: totalQty is overwritten by each order instead of accumulated
LevelSnapshotsLastOrder(os, L, h) ==
    [i \in 1..HeapLen(h) |->
        [Price |-> L[h.Levels[i]].Price,
         Quantity |-> LET q == L[h.Levels[i]].Orders
                      IN  IF q = <<>> THEN 0 ELSE RemainingQuantity(os[q[Len(q)]]),
         Orders |-> Len(L[h.Levels[i]].Orders)]]

\* the PriceLevelSnapshot list of one side, in slice order
LevelSnapshots(os, L, h) ==
    [i \in 1..HeapLen(h) |->
        [Price |-> L[h.Levels[i]].Price,
         Quantity |-> SumRemaining(os, L[h.Levels[i]].Orders),
         Orders |-> Len(L[h.Levels[i]].Orders)]]

\* OrderBook.Snapshot: RLock and the header of the snapshot
SnapshotBegin(t, symbol) ==
    /\ pc[t] = "idle"
    /\ calls < MaxConcCalls
    /\ calls' = calls + 1
    /\ symbol \in DOMAIN orderBooks
    /\ orderBooks' = [orderBooks EXCEPT ![symbol].mutex = @ \cup {t}]
    /\ loc' = [loc EXCEPT ![t] = [NoLocals EXCEPT
                  !.symbol = symbol,
                  !.snapshot = [LastPrice |-> orderBooks[symbol].LastPrice,
                                Bids |-> <<>>, Asks |-> <<>>]]]
    /\ pc' = [pc EXCEPT ![t] = "snapBids"]
    /\ UNCHANGED <<orders, levels, trades, tradeSeq, ret, removed>>

\* OrderBook.Snapshot: the loop over ob.Bids.Levels
SnapshotBids(t) ==
    /\ pc[t] = "snapBids"
    /\ loc' = [loc EXCEPT ![t].snapshot.Bids =
                  LevelSnapshots(orders, levels, orderBooks[loc[t].symbol].Bids)]
    /\ pc' = [pc EXCEPT ![t] = "snapAsks"]
    /\ UNCHANGED <<orders, levels, orderBooks, trades, tradeSeq, ret, calls, removed>>

\* OrderBook.Snapshot: the loop over ob.Asks.Levels, RUnlock and return
SnapshotAsks(t) ==
    /\ pc[t] = "snapAsks"
    /\ ret' = [op |-> "Snapshot", order |-> 0, trades |-> <<>>, ok |-> TRUE,
               snapshot |-> [loc[t].snapshot EXCEPT !.Asks =
                  LevelSnapshots(orders, levels, orderBooks[loc[t].symbol].Asks)]]
    /\ orderBooks' = [orderBooks EXCEPT ![loc[t].symbol].mutex = @ \ {t}]
    /\ pc' = [pc EXCEPT ![t] = "idle"]
    /\ loc' = [loc EXCEPT ![t] = NoLocals]
    /\ UNCHANGED <<orders, levels, trades, tradeSeq, calls, removed>>

BeginLimit ==
    \E t \in Threads, s \in Symbols, side \in Sides, q \in Quantities, p \in Prices :
        Begin(t, s, "limit", side, q, p)

BeginStopLoss ==
    \E t \in Threads, s \in Symbols, side \in Sides, q \in Quantities, p \in Prices :
        Begin(t, s, "stop_loss", side, q, p)

BeginMarket ==
    \E t \in Threads, s \in Symbols, side \in Sides, q \in Quantities :
        Begin(t, s, "market", side, q, 0)

MatchSteps ==
    \E t \in Threads :
        OuterStep(t) \/ InnerStep(t) \/ AfterInnerStep(t) \/ PlaceStep(t) \/ StoreStep(t)

SnapshotSteps ==
    \E t \in Threads :
        (\E s \in Symbols : SnapshotBegin(t, s)) \/ SnapshotBids(t) \/ SnapshotAsks(t)

NextConc == BeginLimit \/ BeginStopLoss \/ BeginMarket \/ MatchSteps \/ SnapshotSteps

SpecConc == Init /\ [][NextConc]_vars

------------------------------------------------------------------------------
\* One call at a time, step by step: a SubmitOrder runs through its loops
\* while no other call runs, and the scheduler keeps running a goroutine
\* that can take a step.

AllIdle == \A t \in Threads : pc[t] = "idle"

BeginAlone ==
    /\ AllIdle
    /\ \E t \in Threads, s \in Symbols, side \in Sides, q \in Quantities :
           \/ \E p \in Prices : Begin(t, s, "limit", side, q, p)
           \/ \E p \in Prices : Begin(t, s, "stop_loss", side, q, p)
           \/ Begin(t, s, "market", side, q, 0)

RemoveAlone == AllIdle /\ Remove

NextSteps == BeginAlone \/ MatchSteps \/ RemoveAlone

SpecSteps == Init /\ [][NextSteps]_vars /\ WF_vars(MatchSteps)

------------------------------------------------------------------------------
\* The statements of one pass of the inner loop, interleaved: the pass reads
\* bestLevel.Orders[0] and computes tradeQty, and then fills the two orders
\* and drops the head of the level.  No lock is held in between, so other
\* goroutines' passes and OrderBook.RemoveOrder (which takes ob.mutex, a lock
\* the matching loops never take) can run between the two.

\* `oppositeOrder := bestLevel.Orders[0]` and `tradeQty := min(...)`
PickStep(t) ==
    /\ pc[t] = "inner"
    /\ LET m == Machine(t)
           id == loc[t].order
           best == loc[t].bestLevel
       IN  IF InnerCondition(m, id, best)
           THEN LET oid == Head(levels[best].Orders)
                IN  /\ loc' = [loc EXCEPT ![t].oppositeOrder = oid,
                                          ![t].tradeQty = TradeQty(orders[id], orders[oid])]
                    /\ pc' = [pc EXCEPT ![t] = "fill"]
           ELSE /\ loc' = loc
                /\ pc' = [pc EXCEPT ![t] = "after"]
    /\ UNCHANGED <<orders, levels, orderBooks, trades, tradeSeq, ret, calls, removed>>

\* the rest of the pass: NewTrade, the two Fill calls, LastPrice and LastTrade,
\* append, and `if oppositeOrder.IsFilled() { bestLevel.Orders = bestLevel.Orders[1:] }`,
\* which panics on an empty queue
FillStep(t) ==
    /\ pc[t] = "fill"
    /\ LET m == Machine(t)
           id == loc[t].order
           best == loc[t].bestLevel
           oid == loc[t].oppositeOrder
           tradeQty == loc[t].tradeQty
           order == orders[id]
           tradePrice == TradePrice(order, orders[oid])
           trade == IF order.Side = "buy"
                    THEN NewTrade(tradeSeq + 1, order.Symbol, id, oid, tradePrice, tradeQty)
                    ELSE NewTrade(tradeSeq + 1, order.Symbol, oid, id, tradePrice, tradeQty)
           os1 == [orders EXCEPT ![id] = Fill(@, tradeQty, tradePrice)]
           os2 == [os1 EXCEPT ![oid] = Fill(@, tradeQty, tradePrice)]
           m1 == [m EXCEPT !.orders = os2,
                           !.tseq = @ + 1,
                           !.ob = [@ EXCEPT !.LastPrice = tradePrice, !.LastTrade = trade.ID],
                           !.out = Append(@, trade)]
       IN  IF IsFilled(os2[oid]) /\ Len(levels[best].Orders) = 0
           THEN LET books1 == [orderBooks EXCEPT ![loc[t].symbol] = m1.ob]
                    loc1 == [loc EXCEPT ![t] = NoLocals]
                IN  /\ orders' = os2
                    /\ orderBooks' = books1
                    /\ tradeSeq' = m1.tseq
                    /\ pc' = [pc EXCEPT ![t] = "idle"]
                    /\ loc' = loc1
                    /\ levels' = Reachable(levels, books1, Refs(loc1))
                    /\ ret' = [op |-> "panic", order |-> id, trades |-> m1.out, ok |-> FALSE]
           ELSE /\ Commit(t, [m1 EXCEPT !.levels = IF IsFilled(os2[oid])
                                                   THEN [@ EXCEPT ![best].Orders = Tail(@)]
                                                   ELSE @],
                          best,
                          IF order.Type = "market" /\ IsFilled(os2[id]) THEN "after" ELSE "inner")
                /\ UNCHANGED ret
    /\ UNCHANGED <<trades, calls, removed>>

\* OrderBook.RemoveOrder, called while submits run: one critical section of ob.mutex
RaceRemoveOrder(symbol, orderID) ==
    /\ calls < MaxRaceCalls
    /\ calls' = calls + 1
    /\ symbol \in DOMAIN orderBooks
    /\ orderBooks[symbol].mutex = {}
    /\ LET r == BookRemoveOrder(levels, orderBooks[symbol], orders, orderID)
           books1 == [orderBooks EXCEPT ![symbol] = r.ob]
       IN  /\ orderBooks' = books1
           /\ levels' = Reachable(r.levels, books1, Refs(loc))
           /\ ret' = [op |-> "RemoveOrder", order |-> orderID, trades |-> <<>>, ok |-> r.ok]
           /\ removed' = IF r.ok THEN removed \cup {orderID} ELSE removed
    /\ UNCHANGED <<orders, trades, tradeSeq, pc, loc>>

BeginRace ==
    /\ calls < MaxRaceCalls
    /\ \E t \in Threads, s \in Symbols, side \in Sides, q \in Quantities, p \in Prices :
           Begin(t, s, "limit", side, q, p)

RaceSteps ==
    \E t \in Threads :
        OuterStep(t) \/ PickStep(t) \/ FillStep(t) \/ AfterInnerStep(t)
            \/ PlaceStep(t) \/ StoreStep(t)

RaceRemove == \E s \in Symbols, id \in 1..Len(orders) : RaceRemoveOrder(s, id)

NextRace == BeginRace \/ RaceSteps \/ RaceRemove

SpecRace == Init /\ [][NextRace]_vars

------------------------------------------------------------------------------
\* The trade log under concurrent submits: limit orders at one price, on two
\* symbols, each call run step by step.

\* the handler and SubmitOrder up to the call of matchLimitOrder
BeginLogged(t, symbol, side, quantity, price) ==
    /\ pc[t] = "idle"
    /\ calls < MaxLogCalls
    /\ calls' = calls + 1
    /\ orders' = Append(orders, NewOrder(symbol, "limit", side, quantity, price))
    /\ orderBooks' = GetOrCreateOrderBook(orderBooks, symbol)
    /\ loc' = [loc EXCEPT ![t] = [NoLocals EXCEPT !.symbol = symbol,
                                                   !.order = Len(orders) + 1]]
    /\ pc' = [pc EXCEPT ![t] = "outer"]
    /\ UNCHANGED <<levels, trades, tradeSeq, ret, removed>>

BeginAtOnePrice ==
    \E t \in Threads, s \in BookSymbols, side \in Sides, q \in Quantities :
        BeginLogged(t, s, side, q, 1)

NextLog == BeginAtOnePrice \/ MatchSteps

SpecLog == Init /\ [][NextLog]_vars

------------------------------------------------------------------------------
\* The trade log: sequential SubmitOrder calls of unit limit orders at one
\* price on two symbols, and GetRecentTrades.

\* the engine after SubmitOrder, from the current state, of a new order
AfterSubmit(symbol, orderType, side, quantity, price) ==
    LET books == GetOrCreateOrderBook(orderBooks, symbol)
    IN  MatchByType([orders |-> Append(orders, NewOrder(symbol, orderType, side,
                                                        quantity, price)),
                     levels |-> levels, ob |-> books[symbol],
                     tseq |-> tradeSeq, out |-> <<>>],
                    Len(orders) + 1)

\* variant: the scan runs from the oldest trade
GetRecentTradesOldestFirst(ts, symbol, limit) ==
    LET own == SelectSeq(ts, LAMBDA t : t.Symbol = symbol)
    IN  IF limit <= 0 THEN <<>> ELSE SubSeq(own, 1, min(limit, Len(own)))

\* the loop of GetRecentTrades, at index i with count matches in result
RECURSIVE RecentTradesFrom(_, _, _, _, _, _)
RecentTradesFrom(ts, symbol, limit, i, count, result) ==
    IF i >= 0 /\ count < limit
    THEN IF At(ts, i).Symbol = symbol
         THEN RecentTradesFrom(ts, symbol, limit, i - 1, count + 1,
                               Append(result, At(ts, i)))
         ELSE RecentTradesFrom(ts, symbol, limit, i - 1, count, result)
    ELSE result

GetRecentTrades(ts, symbol, limit) ==
    RecentTradesFrom(ts, symbol, limit, Len(ts) - 1, 0, <<>>)

\* the limits a caller may pass (an int)
Limits == -1..MaxLimit

\* SubmitOrder of a limit order, within the call budget of this specification
SubmitLogged(symbol, side, quantity, price) ==
    /\ calls < MaxTradeCalls
    /\ calls' = calls + 1
    /\ LET m1 == AfterSubmit(symbol, "limit", side, quantity, price)
           books1 == [GetOrCreateOrderBook(orderBooks, symbol) EXCEPT ![symbol] = m1.ob]
       IN  /\ orders' = m1.orders
           /\ orderBooks' = books1
           /\ levels' = Reachable(m1.levels, books1, {})
           /\ tradeSeq' = m1.tseq
           /\ trades' = IF Len(m1.out) > 0 THEN trades \o m1.out ELSE trades
           /\ ret' = [op |-> "SubmitOrder", order |-> Len(orders) + 1,
                      trades |-> m1.out, ok |-> TRUE]
    /\ UNCHANGED <<pc, loc, removed>>

CallGetRecentTrades(symbol, limit) ==
    /\ calls < MaxTradeCalls
    /\ calls' = calls + 1
    /\ ret' = [op |-> "GetRecentTrades", order |-> 0,
               trades |-> GetRecentTrades(trades, symbol, limit), ok |-> TRUE,
               symbol |-> symbol, limit |-> limit]
    /\ UNCHANGED <<orders, levels, orderBooks, trades, tradeSeq, pc, loc, removed>>

SubmitUnit == \E s \in BookSymbols, side \in Sides : SubmitLogged(s, side, 1, 1)

RecentTrades == \E s \in BookSymbols, l \in Limits : CallGetRecentTrades(s, l)

NextTrades == SubmitUnit \/ RecentTrades

SpecTrades == Init /\ [][NextTrades]_vars

------------------------------------------------------------------------------
\* The book map under concurrent calls: GetOrCreateOrderBook and GetOrderBook
\* run under me.mutex (Lock / RLock held for the whole call), so each is one
\* step; SubmitOrder calls run step by step as above, on two symbols.

CallGetOrCreateOrderBook(t, symbol) ==
    /\ pc[t] = "idle"
    /\ calls < MaxBookCalls
    /\ calls' = calls + 1
    /\ orderBooks' = GetOrCreateOrderBook(orderBooks, symbol)
    /\ ret' = [op |-> "GetOrCreateOrderBook", order |-> 0, trades |-> <<>>,
               ok |-> TRUE, symbol |-> symbol]
    /\ UNCHANGED <<orders, levels, trades, tradeSeq, pc, loc, removed>>

CallGetOrderBook(t, symbol) ==
    /\ pc[t] = "idle"
    /\ calls < MaxBookCalls
    /\ calls' = calls + 1
    /\ LET r == GetOrderBook(orderBooks, symbol)
       IN  /\ orderBooks' = r.books
           /\ ret' = [op |-> "GetOrderBook", order |-> 0, trades |-> <<>>,
                      ok |-> r.ob # NilBook, symbol |-> symbol, book |-> r.ob]
    /\ UNCHANGED <<orders, levels, trades, tradeSeq, pc, loc, removed>>

GetOrCreateCalls ==
    \E t \in Threads, s \in BookSymbols : CallGetOrCreateOrderBook(t, s)

GetOrderBookCalls ==
    \E t \in Threads, s \in BookSymbols : CallGetOrderBook(t, s)

BeginOnBooks ==
    \E t \in Threads, s \in BookSymbols, side \in Sides :
        /\ calls < MaxBookCalls
        /\ Begin(t, s, "limit", side, 1, 1)

NextBooks == GetOrCreateCalls \/ GetOrderBookCalls \/ BeginOnBooks \/ MatchSteps

SpecBooks == Init /\ [][NextBooks]_vars

------------------------------------------------------------------------------
\* The order book used directly, as the tests of the orderbook package use it:
\* OrderBook.AddOrder places a limit order without matching it, next to the
\* engine's SubmitOrder and the book's RemoveOrder, one call after the other.

\* variant: the order is matched against the opposite side before it rests
CallAddOrderMatching(symbol, side, quantity, price) ==
    /\ calls < MaxCalls
    /\ calls' = calls + 1
    /\ LET id == Len(orders) + 1
           m1 == AfterSubmit(symbol, "limit", side, quantity, price)
           books1 == [GetOrCreateOrderBook(orderBooks, symbol) EXCEPT ![symbol] = m1.ob]
       IN  /\ orders' = m1.orders
           /\ orderBooks' = books1
           /\ levels' = Reachable(m1.levels, books1, {})
           /\ tradeSeq' = m1.tseq
           /\ trades' = trades \o m1.out
           /\ ret' = [op |-> "AddOrder", order |-> id, trades |-> <<>>, ok |-> TRUE]
    /\ UNCHANGED <<pc, loc, removed>>

\* ob.AddOrder(models.NewOrder(symbol, limit, side, quantity, price))
CallAddOrder(symbol, side, quantity, price) ==
    /\ calls < MaxCalls
    /\ calls' = calls + 1
    /\ LET id == Len(orders) + 1
           books == GetOrCreateOrderBook(orderBooks, symbol)
           m0 == [orders |-> Append(orders, NewOrder(symbol, "limit", side, quantity, price)),
                  levels |-> levels, ob |-> books[symbol],
                  tseq |-> tradeSeq, out |-> <<>>]
           m1 == AddOrder(m0, id)
           books1 == [books EXCEPT ![symbol] = m1.ob]
       IN  /\ orders' = m1.orders
           /\ orderBooks' = books1
           /\ levels' = Reachable(m1.levels, books1, {})
           /\ ret' = [op |-> "AddOrder", order |-> id, trades |-> <<>>, ok |-> TRUE]
    /\ UNCHANGED <<trades, tradeSeq, pc, loc, removed>>

AddLimit ==
    \E s \in Symbols, side \in Sides, q \in Quantities, p \in Prices :
        CallAddOrder(s, side, q, p)

NextOrderBook == AddLimit \/ SubmitLimit \/ SubmitMarket \/ Remove

SpecOrderBook == Init /\ [][NextOrderBook]_vars

------------------------------------------------------------------------------
\* GetSpread and GetMidPrice next to writers.  Each of them calls GetBestBid
\* and then GetBestAsk; each of these two takes ob.mutex.RLock for itself, so
\* a reader is two steps and writers can run in between.  The writers here
\* are complete SubmitOrder and RemoveOrder calls, one at a time.  The field
\* `seen` of a reader's locals is a history of the call: what GetSpread and
\* GetMidPrice are in each state of the book since the call began.

ValuesOf(L, ob) == [spread |-> GetSpread(L, ob), mid |-> GetMidPrice(L, ob)]

\* the locals of the goroutines after a writer has brought the books to books1
Seeing(L, books1) ==
    [t \in Threads |->
        IF pc[t] \in {"spread", "mid"}
        THEN [loc[t] EXCEPT !.seen = @ \cup {ValuesOf(L, books1[loc[t].symbol])}]
        ELSE loc[t]]

\* `bestBid := ob.GetBestBid()` of GetSpread (op = "spread") or GetMidPrice ("mid")
ReadBestBid(t, symbol, op) ==
    /\ pc[t] = "idle"
    /\ calls < MaxReadCalls
    /\ calls' = calls + 1
    /\ symbol \in DOMAIN orderBooks
    /\ loc' = [loc EXCEPT ![t] = [NoLocals EXCEPT
                  !.symbol = symbol,
                  !.bestBid = GetBestBid(levels, orderBooks[symbol]),
                  !.seen = {ValuesOf(levels, orderBooks[symbol])}]]
    /\ pc' = [pc EXCEPT ![t] = op]
    /\ UNCHANGED <<orders, levels, orderBooks, trades, tradeSeq, ret, removed>>

\* `bestAsk := ob.GetBestAsk()` and the rest of GetSpread or GetMidPrice
ReadBestAsk(t) ==
    /\ pc[t] \in {"spread", "mid"}
    /\ LET ob == orderBooks[loc[t].symbol]
           bestBid == loc[t].bestBid
           bestAsk == GetBestAsk(levels, ob)
       IN  ret' = IF pc[t] = "spread"
                  THEN [op |-> "GetSpread", order |-> 0, trades |-> <<>>, ok |-> TRUE,
                        value |-> IF bestBid = 0 \/ bestAsk = 0 THEN 0
                                  ELSE bestAsk - bestBid,
                        seen |-> loc[t].seen]
                  ELSE [op |-> "GetMidPrice", order |-> 0, trades |-> <<>>, ok |-> TRUE,
                        value |-> IF bestBid = 0 \/ bestAsk = 0 THEN Whole(ob.LastPrice)
                                  ELSE Halve(bestBid + bestAsk),
                        seen |-> loc[t].seen]
    /\ pc' = [pc EXCEPT ![t] = "idle"]
    /\ loc' = [loc EXCEPT ![t] = NoLocals]
    /\ UNCHANGED <<orders, levels, orderBooks, trades, tradeSeq, calls, removed>>

\* a complete SubmitOrder of a limit order
WriterSubmit(symbol, side, quantity, price) ==
    /\ calls < MaxReadCalls
    /\ calls' = calls + 1
    /\ LET m1 == AfterSubmit(symbol, "limit", side, quantity, price)
           books1 == [GetOrCreateOrderBook(orderBooks, symbol) EXCEPT ![symbol] = m1.ob]
           L1 == Reachable(m1.levels, books1, {})
       IN  /\ orders' = m1.orders
           /\ orderBooks' = books1
           /\ levels' = L1
           /\ tradeSeq' = m1.tseq
           /\ trades' = IF Len(m1.out) > 0 THEN trades \o m1.out ELSE trades
           /\ ret' = [op |-> "SubmitOrder", order |-> Len(orders) + 1,
                      trades |-> m1.out, ok |-> TRUE]
           /\ loc' = Seeing(L1, books1)
    /\ UNCHANGED <<pc, removed>>

\* a complete OrderBook.RemoveOrder
WriterRemove(symbol, orderID) ==
    /\ calls < MaxReadCalls
    /\ calls' = calls + 1
    /\ symbol \in DOMAIN orderBooks
    /\ LET r == BookRemoveOrder(levels, orderBooks[symbol], orders, orderID)
           books1 == [orderBooks EXCEPT ![symbol] = r.ob]
           L1 == Reachable(r.levels, books1, {})
       IN  /\ orderBooks' = books1
           /\ levels' = L1
           /\ ret' = [op |-> "RemoveOrder", order |-> orderID, trades |-> <<>>, ok |-> r.ok]
           /\ removed' = IF r.ok THEN removed \cup {orderID} ELSE removed
           /\ loc' = Seeing(L1, books1)
    /\ UNCHANGED <<orders, trades, tradeSeq, pc>>

Readers ==
    \E t \in Threads :
        \/ \E s \in Symbols, op \in {"spread", "mid"} : ReadBestBid(t, s, op)
        \/ ReadBestAsk(t)

Writers ==
    \/ \E s \in Symbols, side \in Sides, q \in Quantities, p \in Prices :
           WriterSubmit(s, side, q, p)
    \/ \E s \in Symbols, id \in 1..Len(orders) : WriterRemove(s, id)

NextReaders == Readers \/ Writers

SpecReaders == Init /\ [][NextReaders]_vars

------------------------------------------------------------------------------
\* Two symbols: sequential SubmitOrder calls of limit orders and RemoveOrder
\* calls on the books of two symbols.

SubmitOnBooks ==
    \E s \in BookSymbols, side \in Sides, q \in Quantities, p \in Prices :
        SubmitOrder(s, "limit", side, q, p)

RemoveOnBooks ==
    \E s \in BookSymbols, id \in 1..Len(orders) : RemoveOrder(s, id)

NextSymbols == SubmitOnBooks \/ RemoveOnBooks

SpecSymbols == Init /\ [][NextSymbols]_vars

------------------------------------------------------------------------------
\* Observations used by the properties

HeapLevels(h) == {h.Levels[i] : i \in 1..HeapLen(h)}

SetMax(S) == CHOOSE x \in S : \A y \in S : x >= y

\* highest resting buy price / lowest resting sell price of a book
HighestBid(ob) == SetMax({levels[a].Price : a \in HeapLevels(ob.Bids)})
LowestAsk(ob) == SetMin({levels[a].Price : a \in HeapLevels(ob.Asks)})

BothSides(ob) == HeapLen(ob.Bids) > 0 /\ HeapLen(ob.Asks) > 0

Submitted == ret.op = "SubmitOrder"

\* the order a trade was matched against, for a trade of aggressor id
RestingIn(os, t, id) == IF os[id].Side = "buy" THEN t.SellOrderID ELSE t.BuyOrderID
RestingOf(t, id) == RestingIn(orders, t, id)

RECURSIVE SumQuantity(_)
SumQuantity(ts) == IF ts = <<>> THEN 0 ELSE Head(ts).Quantity + SumQuantity(Tail(ts))

Naming(ts, id) == SelectSeq(ts, LAMBDA t : t.BuyOrderID = id \/ t.SellOrderID = id)

\* C1: after every SubmitOrder returns, no book is crossed: whenever both
\* sides hold resting orders, the highest bid (also as reported by GetBestBid)
\* is strictly below the lowest ask (also as reported by GetBestAsk).
C1_NoCrossedBook ==
    Submitted =>
        \A s \in DOMAIN orderBooks :
            BothSides(orderBooks[s]) =>
                /\ HighestBid(orderBooks[s]) < LowestAsk(orderBooks[s])
                /\ GetBestBid(levels, orderBooks[s]) < GetBestAsk(levels, orderBooks[s])

\* a submit traded, rested its remainder, and left orders on both sides
C1_Witness ==
    /\ Submitted
    /\ Len(ret.trades) > 0
    /\ \E s \in DOMAIN orderBooks :
          /\ ret.order \in orderBooks[s].orders
          /\ BothSides(orderBooks[s])

\* C2: every trade returned by SubmitOrder, and every trade in the log, has
\* the limit price of the resting order it was matched against (the order of
\* the pair that was submitted first), not the price of the aggressor.
C2_RestingPrice ==
    /\ Submitted =>
          \A k \in 1..Len(ret.trades) :
              /\ RestingOf(ret.trades[k], ret.order) # ret.order
              /\ ret.trades[k].Price = orders[RestingOf(ret.trades[k], ret.order)].Price
    /\ \A k \in 1..Len(trades) :
          trades[k].Price = orders[min(trades[k].BuyOrderID, trades[k].SellOrderID)].Price

\* a limit aggressor traded at a price that is not its own
C2_Witness ==
    /\ Submitted
    /\ orders[ret.order].Type = "limit"
    /\ \E k \in 1..Len(ret.trades) : ret.trades[k].Price # orders[ret.order].Price

\* C3: no trade of a limit aggressor at price P is worse than P: a buy never
\* trades above P, a sell never below P.
C3_LimitRespected ==
    (Submitted /\ orders[ret.order].Type = "limit") =>
        \A k \in 1..Len(ret.trades) :
            /\ orders[ret.order].Side = "buy" => ret.trades[k].Price <= orders[ret.order].Price
            /\ orders[ret.order].Side = "sell" => ret.trades[k].Price >= orders[ret.order].Price

\* a limit aggressor traded, stopped at an unacceptable price and rested
C3_Witness ==
    /\ Submitted
    /\ orders[ret.order].Type = "limit"
    /\ Len(ret.trades) > 0
    /\ \E s \in DOMAIN orderBooks :
          /\ ret.order \in orderBooks[s].orders
          /\ BothSides(orderBooks[s])
          /\ orders[ret.order].Side = "buy"
          /\ LowestAsk(orderBooks[s]) > orders[ret.order].Price

\* the queue, before the call, of the level in which order id rests
QueueOf(id) ==
    LET holding == {a \in DOMAIN levels : InSeq(levels[a].Orders, id)}
    IN  IF holding = {} THEN <<>> ELSE levels[CHOOSE a \in holding : TRUE].Orders

OppositeLevels(id) ==
    HeapLevels(OppositeHeap(orderBooks[orders[id].Symbol], orders[id]))

\* C5: the trades returned by one SubmitOrder are in match order, best price
\* first (non-decreasing for a buy, non-increasing for a sell), and no level
\* left on the opposite side has a better price than any of them.
C5_BestPriceFirst ==
    Submitted =>
        LET ts == ret.trades
            buy == orders[ret.order].Side = "buy"
        IN  /\ \A j, k \in 1..Len(ts) :
                  j < k => IF buy THEN ts[j].Price <= ts[k].Price
                                  ELSE ts[j].Price >= ts[k].Price
            /\ \A k \in 1..Len(ts) : \A a \in OppositeLevels(ret.order) :
                  IF buy THEN levels[a].Price >= ts[k].Price
                         ELSE levels[a].Price <= ts[k].Price

\* one submit walked two levels of different prices
C5_Witness ==
    /\ Submitted
    /\ \E j, k \in 1..Len(ret.trades) : ret.trades[j].Price # ret.trades[k].Price

\* C6: the quantities of the trades returned for X sum to X's filled quantity,
\* and every order's filled quantity is the sum of the quantities of the
\* trades of the log that name it.
C6_FilledIsTraded ==
    /\ Submitted => SumQuantity(ret.trades) = orders[ret.order].FilledQuantity
    /\ \A id \in 1..Len(orders) :
          orders[id].FilledQuantity = SumQuantity(Naming(trades, id))

\* some order was filled by two trades
C6_Witness ==
    \E id \in 1..Len(orders) :
        /\ Len(Naming(trades, id)) >= 2
        /\ orders[id].FilledQuantity >= 2

------------------------------------------------------------------------------
\* Concurrent SubmitOrder calls

AllReturned == \A t \in Threads : pc[t] = "idle"

\* goroutine t is inside the body of a matching loop
InMatchingLoop(t) == pc[t] \in {"inner", "after"}

\* goroutine t has mutated the book and has not finished its placement
MidSubmit(t) == pc[t] \in {"outer", "inner", "after", "place"} /\ Len(loc[t].out) > 0

\* all orders of a symbol, as they were when submitted
IdsOf(symbol) == {id \in 1..Len(orders) : orders[id].Symbol = symbol}

AsSubmitted ==
    [id \in 1..Len(orders) |->
        NewOrder(orders[id].Symbol, orders[id].Type, orders[id].Side,
                 orders[id].Quantity, orders[id].Price)]

PermsOf(S) ==
    {p \in [1..Cardinality(S) -> S] : \A i, j \in 1..Cardinality(S) : i # j => p[i] # p[j]}

\* the calls of perm, from position k on, run one after the other on machine m
RECURSIVE Replay(_, _, _)
Replay(m, perm, k) ==
    IF k > Len(perm)
    THEN m
    ELSE LET m1 == MatchByType([m EXCEPT !.out = <<>>], perm[k])
         IN  Replay([m1 EXCEPT !.log = @ \o m1.out], perm, k + 1)

Sequentially(symbol, perm) ==
    Replay([orders |-> AsSubmitted, levels |-> NoLevels, ob |-> NewOrderBook(symbol),
            tseq |-> 0, out |-> <<>>, log |-> <<>>], perm, 1)

Queues(L, h) == {<<L[a].Price, L[a].Orders>> : a \in HeapLevels(h)}

TradeFacts(ts) ==
    {[n |-> Cardinality({j \in 1..Len(ts) :
                            /\ ts[j].BuyOrderID = ts[k].BuyOrderID
                            /\ ts[j].SellOrderID = ts[k].SellOrderID
                            /\ ts[j].Price = ts[k].Price
                            /\ ts[j].Quantity = ts[k].Quantity}),
      buy |-> ts[k].BuyOrderID, sell |-> ts[k].SellOrderID,
      price |-> ts[k].Price, quantity |-> ts[k].Quantity] : k \in 1..Len(ts)}

\* what a caller can see of a symbol: the trades emitted, the final book and
\* the final state of the orders
Outcome(symbol, os, L, ob, log) ==
    [orders |-> [id \in IdsOf(symbol) |-> os[id]],
     bids |-> Queues(L, ob.Bids),
     asks |-> Queues(L, ob.Asks),
     index |-> ob.orders,
     lastPrice |-> ob.LastPrice,
     trades |-> TradeFacts(SelectSeq(log, LAMBDA t : t.Symbol = symbol))]

\* C8: concurrent SubmitOrder calls on one symbol are linearized: once all
\* calls have returned, the trades emitted and the final book are those of
\* some sequential execution of the same calls.
C8_Linearizable ==
    AllReturned =>
        \A s \in DOMAIN orderBooks :
            \E perm \in PermsOf(IdsOf(s)) :
                LET m == Sequentially(s, perm)
                IN  Outcome(s, orders, levels, orderBooks[s], trades)
                      = Outcome(s, m.orders, m.levels, m.ob, m.log)

\* C9: SubmitOrder holds the book's write lock for matching and placement: no
\* two calls are inside the matching loop of one book at once, and no holder
\* of the read lock runs while a submit is between its first mutation of the
\* book and its placement.
C9_WriteLockHeld ==
    /\ \A t1, t2 \in Threads :
          (t1 # t2 /\ loc[t1].symbol = loc[t2].symbol)
              => ~(InMatchingLoop(t1) /\ InMatchingLoop(t2))
    /\ \A t \in Threads :
          MidSubmit(t) => orderBooks[loc[t].symbol].mutex = {}

\* C10: for every interleaving of concurrent SubmitOrder calls, once all
\* calls have returned no book is crossed.
C10_NotCrossedAtRest ==
    AllReturned =>
        \A s \in DOMAIN orderBooks :
            BothSides(orderBooks[s]) =>
                HighestBid(orderBooks[s]) < LowestAsk(orderBooks[s])

------------------------------------------------------------------------------
\* Snapshot against concurrent SubmitOrder calls

\* what Snapshot returns of a book that nobody is changing
SnapshotOf(os, L, ob) ==
    [LastPrice |-> ob.LastPrice,
     Bids |-> LevelSnapshots(os, L, ob.Bids),
     Asks |-> LevelSnapshots(os, L, ob.Asks)]

\* the views of the book of symbol after complete submits: of any of the
\* calls made, run one after the other in any order
AtomicViews(symbol) ==
    {SnapshotOf(m.orders, m.levels, m.ob) :
        m \in {Sequentially(symbol, perm) :
                 perm \in UNION {PermsOf(S) : S \in SUBSET IdsOf(symbol)}}}

SnapshotLevels(snapshot) ==
    {snapshot.Bids[i] : i \in 1..Len(snapshot.Bids)}
        \cup {snapshot.Asks[i] : i \in 1..Len(snapshot.Asks)}

\* C11: a Snapshot taken while SubmitOrder calls run is atomic: it shows no
\* level with zero orders or zero quantity, and the view it returns is the
\* book as it stood before or after some complete submit.
C11_SnapshotAtomic ==
    ret.op = "Snapshot" =>
        /\ \A l \in SnapshotLevels(ret.snapshot) : l.Orders > 0 /\ l.Quantity > 0
        /\ \E s \in DOMAIN orderBooks : ret.snapshot \in AtomicViews(s)

------------------------------------------------------------------------------
\* Placement and removal

\* order id is in the queue of some price level
InSomeLevel(id) == \E a \in DOMAIN levels : InSeq(levels[a].Orders, id)

\* order id is in the identity index of some book
InSomeIndex(id) == \E s \in DOMAIN orderBooks : id \in orderBooks[s].orders

\* the status that the fill of an order calls for
StatusOfFill(o) ==
    IF o.FilledQuantity = o.Quantity THEN "filled"
    ELSE IF o.FilledQuantity > 0 THEN "partial"
    ELSE "pending"

\* C12: a market order never rests: once its SubmitOrder has returned it is
\* in no price level and not in the identity index, whatever its remaining
\* quantity, and its final status is Filled if fully filled, PartiallyFilled
\* if partly filled, Pending if nothing was filled.
C12_MarketNeverRests ==
    \A id \in 1..Len(orders) :
        orders[id].Type = "market" =>
            /\ ~InSomeLevel(id)
            /\ ~InSomeIndex(id)
            /\ orders[id].Status = StatusOfFill(orders[id])

\* a market order returned partly filled, its remainder discarded
C12_Witness ==
    /\ Submitted
    /\ orders[ret.order].Type = "market"
    /\ Len(ret.trades) > 0
    /\ RemainingQuantity(orders[ret.order]) > 0
    /\ orders[ret.order].Status = "partial"

\* the heap of the side of an order
OwnHeap(ob, order) == IF order.Side = "buy" THEN ob.Bids ELSE ob.Asks

\* the levels, of any heap of any book, whose queue holds order id
LevelsHolding(id) == {a \in DOMAIN levels : InSeq(levels[a].Orders, id)}

\* C13: after SubmitOrder returns for a limit order X: if X has a remainder,
\* X rests on its own side, at the tail of the queue of the level priced
\* X.Price, in no other level, and is in the identity index; if X has no
\* remainder, X is in no level and not in the index.
C13_LimitPlacement ==
    (Submitted /\ orders[ret.order].Type = "limit") =>
        LET id == ret.order
            X == orders[id]
            ob == orderBooks[X.Symbol]
        IN  IF RemainingQuantity(X) > 0
            THEN /\ id \in ob.orders
                 /\ \E a \in HeapLevels(OwnHeap(ob, X)) :
                       /\ levels[a].Price = X.Price
                       /\ levels[a].Orders[Len(levels[a].Orders)] = id
                       /\ LevelsHolding(id) = {a}
                       /\ Cardinality({j \in 1..Len(levels[a].Orders) :
                                          levels[a].Orders[j] = id}) = 1
            ELSE /\ ~InSomeLevel(id)
                 /\ ~InSomeIndex(id)

\* a limit order rested behind an earlier order of its level
C13_Witness ==
    /\ Submitted
    /\ orders[ret.order].Type = "limit"
    /\ RemainingQuantity(orders[ret.order]) > 0
    /\ \E a \in LevelsHolding(ret.order) :
          /\ Len(levels[a].Orders) >= 2
          /\ levels[a].Orders[Len(levels[a].Orders)] = ret.order

------------------------------------------------------------------------------
\* Mass conservation

\* the sum of f[x] over the x of the finite set S
RECURSIVE SumOver(_, _)
SumOver(f, S) ==
    IF S = {} THEN 0
    ELSE LET x == CHOOSE y \in S : TRUE IN f[x] + SumOver(f, S \ {x})

\* remaining quantity of the orders resting in the levels of the book of symbol
RestingRemaining(symbol) ==
    LET ob == orderBooks[symbol]
        inLevel == [a \in HeapLevels(ob.Bids) \cup HeapLevels(ob.Asks) |->
                       SumRemaining(orders, levels[a].Orders)]
    IN  SumOver(inLevel, DOMAIN inLevel)

\* traded quantity of the log, counted once for each order a trade touches
TradedPerOrder(symbol) ==
    SumOver([id \in IdsOf(symbol) |-> SumQuantity(Naming(trades, id))], IdsOf(symbol))

SubmittedQuantity(symbol) ==
    SumOver([id \in IdsOf(symbol) |-> orders[id].Quantity], IdsOf(symbol))

\* remainder, at its removal, of the orders that RemoveOrder took off the book
CancelledRemainder(symbol) ==
    SumOver([id \in IdsOf(symbol) |-> RemainingQuantity(orders[id])],
            IdsOf(symbol) \cap removed)

\* remainder of the market orders, which is discarded and never rests
DiscardedRemainder(symbol) ==
    SumOver([id \in IdsOf(symbol) |-> RemainingQuantity(orders[id])],
            {id \in IdsOf(symbol) : orders[id].Type = "market"})

------------------------------------------------------------------------------
\* Order status

Forward ==
    {<<"pending", "partial">>, <<"pending", "filled">>, <<"partial", "filled">>,
     <<"pending", "cancelled">>, <<"partial", "cancelled">>}

\* C16: in every step each order's status stays or moves forward (Pending ->
\* PartiallyFilled -> Filled, Pending -> Filled, or to Cancelled from Pending
\* or PartiallyFilled) and its filled quantity never decreases; an order that
\* is Filled or Cancelled, or that RemoveOrder took off the book, keeps its
\* status and its filled quantity for ever.
C16_StatusForward ==
    [][ \A id \in 1..Len(orders) :
          /\ \/ orders'[id].Status = orders[id].Status
             \/ <<orders[id].Status, orders'[id].Status>> \in Forward
          /\ orders'[id].FilledQuantity >= orders[id].FilledQuantity
          /\ (orders[id].Status \in {"filled", "cancelled"} \/ id \in removed) =>
                /\ orders'[id].Status = orders[id].Status
                /\ orders'[id].FilledQuantity = orders[id].FilledQuantity
      ]_vars

\* an order went Pending -> PartiallyFilled -> Filled by two trades, and a
\* later submit that traded left it as it was
C16_Witness ==
    /\ Submitted
    /\ Len(ret.trades) > 0
    /\ \E id \in 1..Len(orders) :
          /\ orders[id].Status = "filled"
          /\ Len(Naming(trades, id)) >= 2
          /\ Naming(ret.trades, id) = <<>>

------------------------------------------------------------------------------
\* Validation at submit entry

\* a submission that the specification calls invalid
InvalidOrder(o) ==
    \/ o.Quantity <= 0
    \/ o.Type \in {"limit", "stop_loss"} /\ o.Price <= 0

\* C17: a submission with quantity <= 0, or of type Limit/StopLoss with
\* price <= 0, is rejected at submit entry and changes nothing: no call of
\* SubmitOrder returns normally for such an order, and a rejected call leaves
\* books, levels, orders and trades as they were.
C17_InvalidRejected ==
    [][ (calls' = calls + 1) =>
          /\ ret'.op = "SubmitOrder" => ~InvalidOrder(orders'[ret'.order])
          /\ ret'.op = "BadRequest" =>
                /\ InvalidOrder(ret'.request)
                /\ UNCHANGED <<orders, levels, orderBooks, trades, tradeSeq>>
      ]_vars

------------------------------------------------------------------------------
\* OrderBook.RemoveOrder

\* no heap of any book holds a level without orders
NoEmptyLevel ==
    \A s \in DOMAIN orderBooks :
        \A a \in HeapLevels(orderBooks[s].Bids) \cup HeapLevels(orderBooks[s].Asks) :
            Len(levels[a].Orders) > 0

\* C18: RemoveOrder(id) returns true exactly when order id is resting in a
\* level when it is called, and then the order is in no level and not in the
\* index afterwards and no emptied level is left; for an id that is unknown,
\* already removed or already fully filled it returns false and leaves the
\* levels and the index of the book unchanged.
C18_RemoveOrder ==
    [][ \A id \in 1..Len(orders) :
          (calls' = calls + 1 /\ ret'.op = "RemoveOrder" /\ ret'.order = id) =>
              /\ ret'.ok <=> InSomeLevel(id)
              /\ ret'.ok => /\ ~InSomeLevel(id)'
                            /\ ~InSomeIndex(id)'
                            /\ NoEmptyLevel'
              /\ ~ret'.ok => UNCHANGED <<levels, orderBooks>>
      ]_vars

\* C19: cancelling a resting order that is Pending or PartiallyFilled sets
\* its status to Cancelled and records the cancel timestamp: after a
\* RemoveOrder that returned true the order is Cancelled, not Pending or
\* PartiallyFilled.
C19_CancelSetsCancelled ==
    (ret.op = "RemoveOrder" /\ ret.ok) =>
        /\ orders[ret.order].Status = "cancelled"
        /\ orders[ret.order].CancelledAt

\* order x would match order id on price: opposite sides, prices crossing
Crossing(x, id) ==
    /\ orders[x].Side # orders[id].Side
    /\ orders[x].Symbol = orders[id].Symbol
    /\ IF orders[x].Side = "buy" THEN orders[x].Price >= orders[id].Price
                                  ELSE orders[x].Price <= orders[id].Price

\* C20: once RemoveOrder(id) has returned true the removed order never
\* trades again: in every later step its filled quantity stays fixed, it is
\* in no level, no trade returned or logged names it, and a limit order
\* submitted on the opposite side at a crossing price, with nothing else to
\* match, rests without a trade.
C20_RemovedNeverTrades ==
    [][ \A id \in removed :
          /\ orders'[id].FilledQuantity = orders[id].FilledQuantity
          /\ ~InSomeLevel(id)'
          /\ Naming(trades', id) = Naming(trades, id)
          /\ (calls' = calls + 1 /\ ret'.op = "SubmitOrder") =>
                /\ Naming(ret'.trades, id) = <<>>
                /\ \A x \in {ret'.order} :
                      (/\ orders'[x].Type = "limit"
                       /\ Crossing(x, id)'
                       /\ HeapLen(OppositeHeap(orderBooks[orders[id].Symbol],
                                               orders'[x])) = 0)
                          => /\ ret'.trades = <<>>
                             /\ InSomeLevel(x)'
      ]_vars

\* a removed order with a remainder, and a later limit order of the
\* opposite side at a crossing price that rested without a trade
C20_Witness ==
    /\ Submitted
    /\ ret.trades = <<>>
    /\ InSomeLevel(ret.order)
    /\ \E id \in removed :
          /\ id < ret.order
          /\ RemainingQuantity(orders[id]) > 0
          /\ Crossing(ret.order, id)

------------------------------------------------------------------------------
\* The identity index

\* the orders queued in the levels of the two heaps of a book
RestingOrders(ob) ==
    UNION {{levels[a].Orders[j] : j \in 1..Len(levels[a].Orders)} :
              a \in HeapLevels(ob.Bids) \cup HeapLevels(ob.Asks)}

\* number of places, over all levels of a book, where order id is queued
Occurrences(ob, id) ==
    LET perLevel == [a \in HeapLevels(ob.Bids) \cup HeapLevels(ob.Asks) |->
                        Cardinality({j \in 1..Len(levels[a].Orders) :
                                        levels[a].Orders[j] = id})]
    IN  SumOver(perLevel, DOMAIN perLevel)

\* C21: the identity index of a book holds exactly the resting orders: every
\* resting order is queued once and indexed, every indexed order is resting,
\* and no indexed order has remaining = 0 (a resting order that matching
\* fills is taken out of its level and out of the index).
C21_IndexIsResting ==
    \A s \in DOMAIN orderBooks :
        /\ orderBooks[s].orders = RestingOrders(orderBooks[s])
        /\ \A id \in orderBooks[s].orders :
              /\ Occurrences(orderBooks[s], id) = 1
              /\ RemainingQuantity(orders[id]) > 0

------------------------------------------------------------------------------
\* Stop-loss orders

\* C22: from every engine state, submitting a StopLoss order gives the same
\* trades, the same book and the same orders as submitting a Limit order of
\* the same symbol, side, quantity and price, and the order's type is Limit
\* afterwards.
C22_StopLossIsLimit ==
    \A s \in Symbols, side \in Sides, q \in Quantities, p \in Prices :
        LET stop == AfterSubmit(s, "stop_loss", side, q, p)
            limit == AfterSubmit(s, "limit", side, q, p)
        IN  /\ stop = limit
            /\ stop.orders[Len(orders) + 1].Type = "limit"

\* a state from which a stop-loss order trades and rests its remainder
C22_Witness ==
    \E s \in Symbols, side \in Sides, q \in Quantities, p \in Prices :
        LET stop == AfterSubmit(s, "stop_loss", side, q, p)
        IN  /\ Len(stop.out) > 0
            /\ (Len(orders) + 1) \in stop.ob.orders
            /\ stop.orders[Len(orders) + 1].Type = "limit"

------------------------------------------------------------------------------
\* The engine's book map

\* C23: GetOrCreateOrderBook makes a book only for a symbol that has none
\* and afterwards every call finds that same book: in every step of any
\* interleaving of GetOrCreateOrderBook and SubmitOrder calls, a symbol that
\* has a book keeps it, a call of GetOrCreateOrderBook (alone or at the entry
\* of SubmitOrder) leaves every existing book as it is, and no book that was
\* written to is replaced by a new one.
C23_OneBookPerSymbol ==
    [][ /\ \A s \in DOMAIN orderBooks :
              /\ s \in DOMAIN orderBooks'
              /\ (calls' = calls + 1) => orderBooks'[s] = orderBooks[s]
              /\ ~(orderBooks[s] # NewOrderBook(s) /\ orderBooks'[s] = NewOrderBook(s))
        /\ \A s \in DOMAIN orderBooks' \ DOMAIN orderBooks :
              orderBooks'[s] = NewOrderBook(s)
      ]_vars

\* GetOrCreateOrderBook returned for a symbol whose book holds a resting
\* order, while a SubmitOrder call is in progress and both symbols have a book
C23_Witness ==
    /\ ret.op = "GetOrCreateOrderBook"
    /\ DOMAIN orderBooks = BookSymbols
    /\ orderBooks[ret.symbol].orders # {}
    /\ \E t \in Threads : pc[t] # "idle"

\* C24: GetOrderBook never creates a book: in every step that is a call of
\* GetOrderBook (a call that submits no order and returns from GetOrderBook),
\* the symbol -> book map is unchanged, the result is none for a symbol
\* without a book, and the book of the map for a symbol that has one.
C24_GetOrderBookReadOnly ==
    [][ (calls' = calls + 1 /\ orders' = orders /\ ret'.op = "GetOrderBook") =>
          /\ orderBooks' = orderBooks
          /\ ret'.symbol \notin DOMAIN orderBooks =>
                ret'.book = NilBook /\ ~ret'.ok
          /\ ret'.symbol \in DOMAIN orderBooks =>
                ret'.book = orderBooks[ret'.symbol] /\ ret'.ok
      ]_vars

\* GetOrderBook returned none for a symbol while the other symbol has a book
C24_Witness ==
    /\ ret.op = "GetOrderBook"
    /\ ~ret.ok
    /\ ret.symbol \notin DOMAIN orderBooks
    /\ DOMAIN orderBooks # {}

------------------------------------------------------------------------------
\* The trade log

\* the k most recently logged trades of a symbol, most recent first
MostRecent(ts, symbol, k) ==
    LET own == SelectSeq(ts, LAMBDA t : t.Symbol = symbol)
    IN  [i \in 1..k |-> own[Len(own) - i + 1]]

TradesOf(ts, symbol) == Len(SelectSeq(ts, LAMBDA t : t.Symbol = symbol))

\* C25: GetRecentTrades(symbol, limit) returns exactly the min(limit, n) most
\* recently logged trades of the symbol, n being the number of its trades in
\* the log, most recent first, with no trade of another symbol; for
\* limit <= 0 it returns an empty list.
C25_RecentTrades ==
    ret.op = "GetRecentTrades" =>
        /\ ret.limit <= 0 => ret.trades = <<>>
        /\ ret.limit > 0 =>
              ret.trades = MostRecent(trades, ret.symbol,
                                      min(ret.limit, TradesOf(trades, ret.symbol)))
        /\ \A k \in 1..Len(ret.trades) : ret.trades[k].Symbol = ret.symbol

\* a call with a limit below the number of the symbol's trades, on a log whose
\* last trade is of the other symbol
C25_Witness ==
    /\ ret.op = "GetRecentTrades"
    /\ ret.limit > 0
    /\ ret.limit < TradesOf(trades, ret.symbol)
    /\ Len(ret.trades) = ret.limit
    /\ trades[Len(trades)].Symbol # ret.symbol

------------------------------------------------------------------------------
\* Best bid, best ask, spread and mid price

\* the orders of one side queued in the levels of a book
RestingOn(ob, side) == {id \in RestingOrders(ob) : orders[id].Side = side}

PricesOf(ids) == {orders[id].Price : id \in ids}

\* C26: after any sequence of AddOrder, RemoveOrder and SubmitOrder calls,
\* GetBestBid is the maximum price of the resting buy orders and GetBestAsk
\* the minimum price of the resting sell orders, and each is 0 when its side
\* has no resting order.
C26_BestBidAsk ==
    \A s \in DOMAIN orderBooks :
        LET ob == orderBooks[s]
            buys == RestingOn(ob, "buy")
            sells == RestingOn(ob, "sell")
        IN  /\ GetBestBid(levels, ob) = IF buys = {} THEN 0 ELSE SetMax(PricesOf(buys))
            /\ GetBestAsk(levels, ob) = IF sells = {} THEN 0 ELSE SetMin(PricesOf(sells))

\* the best bid was removed, two bid levels are left, and the best of them is
\* not the level that was created first
C26_Witness ==
    \E s \in DOMAIN orderBooks :
        LET ob == orderBooks[s]
        IN  /\ ret.op = "RemoveOrder" /\ ret.ok
            /\ orders[ret.order].Side = "buy"
            /\ HeapLen(ob.Bids) = 2
            /\ orders[ret.order].Price > GetBestBid(levels, ob)
            /\ GetBestBid(levels, ob) > SetMin(PricesOf(RestingOn(ob, "buy")))
            /\ \E id \in RestingOn(ob, "buy") :
                   /\ orders[id].Price = GetBestBid(levels, ob)
                   /\ id > SetMin(RestingOn(ob, "buy"))

\* C27: GetSpread is the best ask minus the best bid when both sides of the
\* book have resting orders, and 0 when either side has none.
C27_Spread ==
    \A s \in DOMAIN orderBooks :
        LET ob == orderBooks[s]
            buys == RestingOn(ob, "buy")
            sells == RestingOn(ob, "sell")
        IN  GetSpread(levels, ob) =
                IF buys = {} \/ sells = {}
                THEN 0
                ELSE SetMin(PricesOf(sells)) - SetMax(PricesOf(buys))

\* after a submit that traded, both sides rest, the bids on two levels, and
\* the spread is not 0
C27_Witness ==
    \E s \in DOMAIN orderBooks :
        LET ob == orderBooks[s]
        IN  /\ ret.op = "SubmitOrder" /\ Len(ret.trades) > 0
            /\ HeapLen(ob.Bids) = 2 /\ HeapLen(ob.Asks) > 0
            /\ GetSpread(levels, ob) > 0

\* the price of the last trade of a symbol in the trade log, 0 when there is none
LastTradedPrice(symbol) ==
    LET own == SelectSeq(trades, LAMBDA t : t.Symbol = symbol)
    IN  IF own = <<>> THEN 0 ELSE own[Len(own)].Price

\* C28: GetMidPrice is half the sum of the best bid and the best ask when both
\* sides of the book have resting orders; otherwise it is the price of the
\* book's last trade, and 0 before any trade.
C28_MidPrice ==
    \A s \in DOMAIN orderBooks :
        LET ob == orderBooks[s]
            buys == RestingOn(ob, "buy")
            sells == RestingOn(ob, "sell")
            mid == GetMidPrice(levels, ob)
        IN  IF buys = {} \/ sells = {}
            THEN mid = Whole(LastTradedPrice(s))
            ELSE /\ mid.halves \in {0, 1}
                 /\ 2 * mid.int + mid.halves = SetMax(PricesOf(buys)) + SetMin(PricesOf(sells))

\* both sides rest after a trade and the mid price is not a whole number
C28_Witness ==
    \E s \in DOMAIN orderBooks :
        LET ob == orderBooks[s]
        IN  /\ LastTradedPrice(s) > 0
            /\ HeapLen(ob.Bids) > 0 /\ HeapLen(ob.Asks) > 0
            /\ GetMidPrice(levels, ob).halves = 1

------------------------------------------------------------------------------
\* Snapshot totals

\* the orders of a symbol and side that rest at a price: placed as limit
\* orders, not filled and not removed
LiveAt(symbol, side, price) ==
    {id \in 1..Len(orders) :
        /\ orders[id].Symbol = symbol /\ orders[id].Side = side
        /\ orders[id].Type # "market" /\ orders[id].Price = price
        /\ RemainingQuantity(orders[id]) > 0
        /\ id \notin removed}

RemainingOf(ids) == SumOver([id \in ids |-> RemainingQuantity(orders[id])], ids)

\* the levels listed for one side total the resting orders of that side
SideTotals(symbol, side, listed) ==
    /\ \A i \in 1..Len(listed) :
           LET resting == LiveAt(symbol, side, listed[i].Price)
           IN  /\ listed[i].Quantity = RemainingOf(resting)
               /\ listed[i].Orders = Cardinality(resting)
    /\ \A p \in Prices :
           LiveAt(symbol, side, p) # {} =>
               Cardinality({i \in 1..Len(listed) : listed[i].Price = p}) = 1

\* C29: in a Snapshot taken after any sequence of submits and removes, the
\* quantity of every listed level is the sum of the remaining quantities of
\* the orders resting at that price on that side, its orders field is their
\* number, and every price with resting orders is listed exactly once on its
\* side.
C29_SnapshotTotals ==
    \A s \in DOMAIN orderBooks :
        LET snapshot == SnapshotOf(orders, levels, orderBooks[s])
        IN  /\ SideTotals(s, "buy", snapshot.Bids)
            /\ SideTotals(s, "sell", snapshot.Asks)

\* a listed bid level counts two orders, one of them partly filled, next to
\* a second bid level
C29_Witness ==
    \E s \in DOMAIN orderBooks :
        LET snapshot == SnapshotOf(orders, levels, orderBooks[s])
        IN  /\ Len(snapshot.Bids) = 2
            /\ \E i \in 1..2 :
                   /\ snapshot.Bids[i].Orders = 2
                   /\ \E id \in LiveAt(s, "buy", snapshot.Bids[i].Price) :
                          orders[id].FilledQuantity > 0

------------------------------------------------------------------------------
\* The orders of a price level

\* every order queued in a level of heap h has the side, the level's price
\* and something left to fill
QueuedWell(h, side) ==
    \A a \in HeapLevels(h) :
        \A j \in 1..Len(levels[a].Orders) :
            LET order == orders[levels[a].Orders[j]]
            IN  /\ order.Side = side
                /\ order.Price = levels[a].Price
                /\ RemainingQuantity(order) > 0

\* C30: after every SubmitOrder or RemoveOrder returns, every order queued in
\* a price level has the side of the heap that holds it (buy in Bids, sell in
\* Asks), the price of its level and a remaining quantity above 0.
C30_QueuedOrders ==
    \A s \in DOMAIN orderBooks :
        /\ QueuedWell(orderBooks[s].Bids, "buy")
        /\ QueuedWell(orderBooks[s].Asks, "sell")

\* after a submit that traded and rested its remainder, a partly filled order
\* is queued, and orders are queued on both sides and on two levels of one
C30_Witness ==
    \E s \in DOMAIN orderBooks :
        LET ob == orderBooks[s]
        IN  /\ ret.op = "SubmitOrder" /\ Len(ret.trades) > 0
            /\ ret.order \in RestingOrders(ob)
            /\ orders[ret.order].FilledQuantity > 0
            /\ HeapLen(ob.Bids) > 0 /\ HeapLen(ob.Asks) > 0
            /\ HeapLen(ob.Bids) + HeapLen(ob.Asks) > 2

------------------------------------------------------------------------------
\* The quantity of a trade

\* the order of a trade that was submitted later: the aggressor
AggressorOf(t) == IF t.BuyOrderID > t.SellOrderID THEN t.BuyOrderID ELSE t.SellOrderID

\* the order of a trade that was submitted first: the resting order
RestingOrderOf(t) == IF t.BuyOrderID > t.SellOrderID THEN t.SellOrderID ELSE t.BuyOrderID

\* what was left of order id just before the trade at position i of the log:
\* its quantity less the quantities of the earlier trades that name it
RemainingBefore(id, i) ==
    LET earlier == {k \in 1..(i - 1) :
                       trades[k].BuyOrderID = id \/ trades[k].SellOrderID = id}
    IN  orders[id].Quantity - SumOver([k \in earlier |-> trades[k].Quantity], earlier)

\* C31: every emitted trade has the quantity min(aggressor remaining, resting
\* order remaining), taken just before the trade, and that quantity is
\* strictly positive.
C31_TradeQuantity ==
    \A i \in 1..Len(trades) :
        LET x == RemainingBefore(AggressorOf(trades[i]), i)
            r == RemainingBefore(RestingOrderOf(trades[i]), i)
        IN  /\ trades[i].Quantity = IF x <= r THEN x ELSE r
            /\ trades[i].Quantity > 0

\* the log holds a trade limited by the aggressor, and a trade limited by a
\* resting order that had traded before
C31_Witness ==
    /\ \E i \in 1..Len(trades) :
           RemainingBefore(AggressorOf(trades[i]), i)
               < RemainingBefore(RestingOrderOf(trades[i]), i)
    /\ \E i \in 1..Len(trades) :
           /\ RemainingBefore(RestingOrderOf(trades[i]), i)
                  < RemainingBefore(AggressorOf(trades[i]), i)
           /\ RemainingBefore(RestingOrderOf(trades[i]), i)
                  < orders[RestingOrderOf(trades[i])].Quantity

------------------------------------------------------------------------------
\* The last price and the last trade of a book

\* LastPrice and LastTrade of the book of symbol s in a book map; those of a
\* new book when the map has none
LastOf(books, s) ==
    IF s \in DOMAIN books
    THEN [price |-> books[s].LastPrice, trade |-> books[s].LastTrade]
    ELSE [price |-> 0, trade |-> NilTrade]

\* C32: after a SubmitOrder that emitted at least one trade, the book's
\* LastPrice is the price of the last trade of the returned list and LastTrade
\* is that trade; a SubmitOrder that emits no trade, an AddOrder and a
\* RemoveOrder leave LastPrice and LastTrade as they were.
C32_LastPrice ==
    [][calls' = calls + 1 =>
          \A s \in DOMAIN orderBooks' :
              IF /\ ret'.op = "SubmitOrder"
                 /\ Len(ret'.trades) > 0
                 /\ orders'[ret'.order].Symbol = s
              THEN LET last == ret'.trades[Len(ret'.trades)]
                   IN  /\ orderBooks'[s].LastPrice = last.Price
                       /\ orderBooks'[s].LastTrade = last.ID
              ELSE LastOf(orderBooks', s) = LastOf(orderBooks, s)]_vars

\* a submit returned two trades at different prices, and the book shows the
\* price of the second one
C32_Witness ==
    /\ ret.op = "SubmitOrder"
    /\ Len(ret.trades) = 2
    /\ ret.trades[1].Price # ret.trades[2].Price
    /\ orderBooks[orders[ret.order].Symbol].LastPrice = ret.trades[2].Price
    /\ orderBooks[orders[ret.order].Symbol].LastTrade = ret.trades[2].ID

------------------------------------------------------------------------------
\* Termination of the matching loops

\* the opposite side's best price is not acceptable to a limit order: the
\* lowest ask is above a buy's price, the highest bid below a sell's
BestUnacceptable(ob, order) ==
    /\ order.Type # "market"
    /\ IF order.Side = "buy"
       THEN HeapLen(ob.Asks) > 0 /\ LowestAsk(ob) > order.Price
       ELSE HeapLen(ob.Bids) > 0 /\ HighestBid(ob) < order.Price

\* goroutine t leaves the outer matching loop in this step
LeavesLoop(t) == pc[t] = "outer" /\ pc'[t] \in {"place", "store"}

StopsFor(t) ==
    LET order == orders[loc[t].order]
        ob == orderBooks[loc[t].symbol]
    IN  \/ RemainingQuantity(order) = 0
        \/ HeapLen(OppositeHeap(ob, order)) = 0
        \/ BestUnacceptable(ob, order)

\* C33: every SubmitOrder call terminates on every reachable book, and when
\* its matching loop stops, the aggressor's remaining quantity is 0, or the
\* opposite side is empty, or the opposite side's best price is not
\* acceptable to the aggressor.
C33_Terminates ==
    /\ \A t \in Threads : (pc[t] # "idle") ~> (pc[t] = "idle" /\ ret.op = "SubmitOrder")
    /\ [][\A t \in Threads : LeavesLoop(t) => StopsFor(t)]_vars

\* a submit that emptied one level of the opposite side and stopped at the
\* next, whose price it does not accept, has returned
C33_Witness ==
    /\ AllIdle
    /\ ret.op = "SubmitOrder"
    /\ Len(ret.trades) = 1
    /\ RemainingQuantity(orders[ret.order]) > 0
    /\ BestUnacceptable(orderBooks[orders[ret.order].Symbol], orders[ret.order])

------------------------------------------------------------------------------
\* OrderBook.AddOrder

\* the levels of a heap, each with its price and its queue, in slice order
SideView(L, h) == [i \in 1..HeapLen(h) |-> L[h.Levels[i]]]

\* the queue of the orders at price p in a heap, empty when it has no such level
QueueAt(L, h, p) ==
    LET at == {a \in HeapLevels(h) : L[a].Price = p}
    IN  IF at = {} THEN <<>> ELSE L[CHOOSE a \in at : TRUE].Orders

\* the book of symbol s before a call: the one of the map, or a new one
BookBefore(s) == IF s \in DOMAIN orderBooks THEN orderBooks[s] ELSE NewOrderBook(s)

\* C34: OrderBook.AddOrder does not match: it emits no trade, changes no
\* order's filled quantity or status, touches neither the opposite side nor
\* LastPrice, and only appends the order to the queue of its price on its own
\* side and records it in the index, even when its price crosses the
\* opposite best price.
C34_AddOrderNoMatch ==
    [][ret'.op = "AddOrder" /\ calls' = calls + 1 =>
          LET id == ret'.order
              order == orders'[id]
              before == BookBefore(order.Symbol)
              after == orderBooks'[order.Symbol]
              own == IF order.Side = "buy" THEN "Bids" ELSE "Asks"
              opposite == IF order.Side = "buy" THEN "Asks" ELSE "Bids"
          IN  /\ trades' = trades /\ tradeSeq' = tradeSeq
              /\ id = Len(orders) + 1
              /\ SubSeq(orders', 1, Len(orders)) = orders
              /\ order.FilledQuantity = 0 /\ order.Status = "pending"
              /\ SideView(levels', after[opposite]) = SideView(levels, before[opposite])
              /\ after.LastPrice = before.LastPrice
              /\ after.LastTrade = before.LastTrade
              /\ after.orders = before.orders \cup {id}
              /\ \A p \in Prices :
                     QueueAt(levels', after[own], p) =
                         IF p = order.Price
                         THEN Append(QueueAt(levels, before[own], p), id)
                         ELSE QueueAt(levels, before[own], p)]_vars

\* an AddOrder has put a buy order at or above the best ask, behind another
\* order of its price, and the book is crossed
C34_Witness ==
    /\ ret.op = "AddOrder"
    /\ orders[ret.order].Side = "buy"
    /\ LET ob == orderBooks[orders[ret.order].Symbol]
       IN  /\ HeapLen(ob.Asks) > 0
           /\ orders[ret.order].Price >= LowestAsk(ob)
           /\ Len(QueueAt(levels, ob.Bids, orders[ret.order].Price)) = 2
           /\ ret.order \in ob.orders

------------------------------------------------------------------------------
\* Who mutates a resting order

\* two goroutines are between reading the same resting order and filling it
SharedFill ==
    \E t1, t2 \in Threads :
        /\ t1 # t2
        /\ pc[t1] = "fill" /\ pc[t2] = "fill"
        /\ loc[t1].oppositeOrder = loc[t2].oppositeOrder

Overfilled == \E id \in 1..Len(orders) : orders[id].FilledQuantity > orders[id].Quantity

\* C35: for every interleaving of concurrent SubmitOrder and RemoveOrder
\* calls on one symbol, no resting order is mutated by two goroutines at
\* once, no order is filled beyond its quantity, and no order is matched
\* after RemoveOrder returned true for it.
C35_OneMutator ==
    [][/\ ~SharedFill'
       /\ ~Overfilled'
       /\ \A id \in removed : orders'[id].FilledQuantity = orders[id].FilledQuantity
      ]_vars

------------------------------------------------------------------------------
\* The trade log under concurrent submits

\* goroutine t returns from SubmitOrder in this step
Returns(t) == pc[t] = "store" /\ pc'[t] = "idle"

\* C36: for every interleaving of concurrent SubmitOrder calls on the same or
\* on different symbols, the trade log is append-only and complete: the
\* trades a submit returns are appended as one contiguous batch in emission
\* order, each of them is in the log exactly once, and the entries already in
\* the log are neither removed nor reordered.
C36_TradeLog ==
    [][/\ SubSeq(trades', 1, Len(trades)) = trades
       /\ \A t \in Threads :
              Returns(t) =>
                  /\ ret'.trades = loc[t].out
                  /\ trades' = trades \o ret'.trades
                  /\ \A k \in 1..Len(ret'.trades) :
                         Cardinality({j \in 1..Len(trades') :
                                         trades'[j].ID = ret'.trades[k].ID}) = 1
       /\ (\A t \in Threads : ~Returns(t)) => trades' = trades
      ]_vars

\* a submit returned a batch of two trades, between which another submit,
\* whose batch is in the log too, made a trade
C36_Witness ==
    /\ ret.op = "SubmitOrder"
    /\ Len(ret.trades) = 2
    /\ ret.trades[2].ID > ret.trades[1].ID + 1
    /\ \E k \in 1..Len(trades) :
           /\ trades[k].ID > ret.trades[1].ID
           /\ trades[k].ID < ret.trades[2].ID

------------------------------------------------------------------------------
\* The head of the snapshot lists

\* C37: in every state reachable by AddOrder, RemoveOrder and SubmitOrder, a
\* Snapshot is in best-at-head form: the first entry of its bids list has the
\* highest bid price and the first entry of its asks list the lowest ask
\* price.
C37_BestAtHead ==
    \A s \in DOMAIN orderBooks :
        LET snapshot == SnapshotOf(orders, levels, orderBooks[s])
            buys == RestingOn(orderBooks[s], "buy")
            sells == RestingOn(orderBooks[s], "sell")
        IN  /\ buys # {} =>
                /\ Len(snapshot.Bids) > 0
                /\ snapshot.Bids[1].Price = SetMax(PricesOf(buys))
                /\ \A i \in 1..Len(snapshot.Bids) :
                       snapshot.Bids[1].Price >= snapshot.Bids[i].Price
            /\ sells # {} =>
                /\ Len(snapshot.Asks) > 0
                /\ snapshot.Asks[1].Price = SetMin(PricesOf(sells))
                /\ \A i \in 1..Len(snapshot.Asks) :
                       snapshot.Asks[1].Price <= snapshot.Asks[i].Price

\* the lowest ask level was removed, two ask levels are left, and the one
\* listed first was created after the other
C37_Witness ==
    \E s \in DOMAIN orderBooks :
        LET snapshot == SnapshotOf(orders, levels, orderBooks[s])
        IN  /\ ret.op = "RemoveOrder" /\ ret.ok
            /\ orders[ret.order].Side = "sell"
            /\ Len(snapshot.Asks) = 2
            /\ orders[ret.order].Price < snapshot.Asks[1].Price
            /\ snapshot.Asks[1].Price < snapshot.Asks[2].Price
            /\ \E x, y \in RestingOn(orderBooks[s], "sell") :
                   /\ orders[x].Price = snapshot.Asks[1].Price
                   /\ orders[y].Price = snapshot.Asks[2].Price
                   /\ x > y

------------------------------------------------------------------------------
\* Isolation of the symbols

\* all there is to see of the book of symbol s: its levels with their queues,
\* its index, its last price and last trade
BookView(books, L, s) ==
    [Bids |-> SideView(L, books[s].Bids), Asks |-> SideView(L, books[s].Asks),
     orders |-> books[s].orders,
     LastPrice |-> books[s].LastPrice, LastTrade |-> books[s].LastTrade]

\* C38: symbols are isolated: a SubmitOrder for symbol A changes no level,
\* index entry, last price or order of any other symbol's book, every trade
\* it emits carries symbol A, and both orders named in a trade belong to the
\* trade's symbol.
C38_SymbolsIsolated ==
    [][(calls' = calls + 1 /\ ret'.op = "SubmitOrder") =>
          LET A == orders'[ret'.order].Symbol
          IN  /\ \A s \in DOMAIN orderBooks' \ {A} :
                     /\ s \in DOMAIN orderBooks
                     /\ BookView(orderBooks', levels', s) = BookView(orderBooks, levels, s)
              /\ \A id \in 1..Len(orders) :
                     orders[id].Symbol # A => orders'[id] = orders[id]
              /\ \A k \in 1..Len(ret'.trades) : ret'.trades[k].Symbol = A
              /\ \A k \in 1..Len(trades') :
                     /\ orders'[trades'[k].BuyOrderID].Symbol = trades'[k].Symbol
                     /\ orders'[trades'[k].SellOrderID].Symbol = trades'[k].Symbol
      ]_vars

\* a submit for MSFT has traded while an older order of the other side rests
\* in the AAPL book, untouched, at a price the new order accepts
C38_Witness ==
    /\ ret.op = "SubmitOrder"
    /\ Len(ret.trades) > 0
    /\ orders[ret.order].Symbol = "MSFT"
    /\ "AAPL" \in DOMAIN orderBooks
    /\ \E id \in RestingOrders(orderBooks["AAPL"]) :
           /\ id < ret.order
           /\ orders[id].Side # orders[ret.order].Side
           /\ PriceAcceptable(orders[ret.order], orders[id].Price)
           /\ orders[id].FilledQuantity = 0

------------------------------------------------------------------------------
\* The levels of a side

\* the levels of heap h at price p
LevelsOfPrice(h, p) == {i \in 1..HeapLen(h) : levels[h.Levels[i]].Price = p}

\* a side has exactly one level for every price at which an order rests, and
\* no other level
OneLevelPerPrice(s, side, h) ==
    /\ \A i \in 1..HeapLen(h) : levels[h.Levels[i]].Price \in Prices
    /\ \A p \in Prices :
           Cardinality(LevelsOfPrice(h, p)) = IF LiveAt(s, side, p) = {} THEN 0 ELSE 1

\* C39: after every sequential SubmitOrder or RemoveOrder returns, each side
\* of a book holds at most one level per distinct price and no level with an
\* empty order queue: a level exhausted by matching or emptied by a removal
\* is gone from the heap.
C39_LevelsPerPrice ==
    /\ NoEmptyLevel
    /\ \A s \in DOMAIN orderBooks :
           /\ OneLevelPerPrice(s, "buy", orderBooks[s].Bids)
           /\ OneLevelPerPrice(s, "sell", orderBooks[s].Asks)

\* a removal has emptied a level after a match had exhausted another level
\* of the same side, and both are gone from the heap
C39_Witness ==
    /\ ret.op = "RemoveOrder" /\ ret.ok
    /\ Len(trades) > 0
    /\ LET gone == orders[ret.order]
           filled == orders[RestingOrderOf(trades[1])]
           h == IF gone.Side = "buy" THEN orderBooks[gone.Symbol].Bids
                                     ELSE orderBooks[gone.Symbol].Asks
       IN  /\ filled.Side = gone.Side
           /\ filled.Price # gone.Price
           /\ IsFilled(filled)
           /\ LevelsOfPrice(h, gone.Price) = {}
           /\ LevelsOfPrice(h, filled.Price) = {}

------------------------------------------------------------------------------
\* GetSpread and GetMidPrice next to writers

\* C40: for every interleaving of GetSpread or GetMidPrice with concurrent
\* writers of the same book, the value returned is the spread (the mid price)
\* of a single state the book was in during the call; in particular GetSpread
\* never returns a negative value.
C40_ReadersAtomic ==
    /\ ret.op = "GetSpread" =>
           /\ ret.value \in {x.spread : x \in ret.seen}
           /\ ret.value >= 0
    /\ ret.op = "GetMidPrice" =>
           ret.value \in {x.mid : x \in ret.seen}

====
